---- MODULE Spec2Model ----
(***************************************************************************)
(* Tick-level backtesting engine of pyalgotrade: the in-memory tick feed   *)
(* (tickfeed/memtf.py, tickfeed/__init__.py, tick.py), the backtesting     *)
(* broker (tickbroker/backtesting.py), the default fill strategy           *)
(* (tickbroker/fillstrategy.py) and the strategy's subscriptions           *)
(* (tickstrategy/__init__.py).                                             *)
(*                                                                         *)
(* Representation:                                                         *)
(*  - a datetime is a natural number, DayLen consecutive datetimes form    *)
(*    one calendar date; NoDT stands for Python's None;                    *)
(*  - a tick is a record [dt, bid, bidSet]: bidSet is FALSE for a          *)
(*    BasicTick built by BasicTick.__init__, whose getBid() raises         *)
(*    AttributeError because __init__ stores the bid in __open;            *)
(*  - a Python dict is a function whose DOMAIN is the set of keys;         *)
(*  - prices and quantities are whole numbers.                             *)
(***************************************************************************)
EXTENDS Integers, Sequences, FiniteSets, TLC

(***************************************************************************)
(* Bounds of the model.                                                    *)
(***************************************************************************)
MaxTicks == 3
MaxTime == 3
MaxQuantity == 3
MaxVolume == 3

DayLen == 2
NoDT == 0 - 1
NoId == 0

Instruments == {"AAA", "BBB"}
DateTimes == 1..MaxTime

VARIABLES
    ticks,          \* memtf.TickFeed.__ticks: instrument -> sequence of ticks
    nextPos,        \* memtf.TickFeed.__nextPos: instrument -> cursor (0-based)
    feedStarted,    \* memtf.TickFeed.__started
    currDateTime,   \* memtf.TickFeed.__currDateTime
    currentTicks,   \* BaseTickFeed.__currentTicks
    lastTicks,      \* BaseTickFeed.__lastTicks
    subscribers,    \* handlers of the feed's new-values event, in subscription order
    cash,           \* Broker.__cash
    shares,         \* Broker.__shares
    instrumentPrice, \* Broker.__instrumentPrice
    activeOrders,   \* Broker.__activeOrders: order id -> order object
    nextOrderId,    \* Broker.__nextOrderId
    brokerStarted,  \* Broker.__started
    config,         \* commission model, allowNegativeCash, volume limit, initial cash, seeded shares
    volumeLeft,     \* DefaultStrategy.__volumeLeft
    volumeUsed,     \* DefaultStrategy.__volumeUsed
    orders,         \* the order objects created so far
    pc,             \* control point of the run
    hIdx,           \* index of the feed-event handler being run
    cohort,         \* Broker.onTicks: ordersToProcess
    cIdx,           \* Broker.onTicks: position in ordersToProcess
    cb,             \* TRUE while an order-event callback of the strategy runs
    events,         \* order events delivered so far, with what the handler observes
    handlerLog,     \* begin/end of the feed-event handlers for the current batch
    emitted,        \* datetimes of the batches emitted so far
    lastCall,       \* the last operation called and how it ended
    firstRun        \* the outcome of the run made before this one, for the comparison of two runs

feedVars == <<ticks, nextPos, feedStarted, currDateTime, currentTicks, lastTicks, subscribers>>
brokerVars == <<cash, shares, instrumentPrice, activeOrders, nextOrderId, brokerStarted, config>>
fillVars == <<volumeLeft, volumeUsed>>
ctlVars == <<pc, hIdx, cohort, cIdx, cb>>
ghostVars == <<events, handlerLog, emitted, lastCall>>
vars == <<feedVars, brokerVars, fillVars, orders, ctlVars, ghostVars, firstRun>>

(***************************************************************************)
(* Helpers on dicts and sequences.                                         *)
(***************************************************************************)
EmptyDict == [k \in {} |-> 0]

DictSet(d, k, v) == [x \in (DOMAIN d) \cup {k} |-> IF x = k THEN v ELSE d[x]]

DictDel(d, k) == [x \in (DOMAIN d) \ {k} |-> d[x]]

DictGet(d, k, default) == IF k \in DOMAIN d THEN d[k] ELSE default

RECURSIVE SumSeq(_)
SumSeq(s) == IF s = <<>> THEN 0 ELSE Head(s) + SumSeq(Tail(s))

Min2(a, b) == IF a <= b THEN a ELSE b

Max2(a, b) == IF a >= b THEN a ELSE b

\* datetime.date(): the calendar date of a datetime.
DateOf(t) == t \div DayLen

(***************************************************************************)
(* tick.py                                                                 *)
(***************************************************************************)
\* BasicTick.__init__(dateTime, bid, ask): the bid is stored in __open, so
\* the slot read by getBid() stays unset.
BasicTick(dt, bid) == [dt |-> dt, bid |-> bid, bidSet |-> FALSE]

\* A tick whose bid slot is set (BasicTick.__setstate__, or another Tick class).
RestoredTick(dt, bid) == [dt |-> dt, bid |-> bid, bidSet |-> TRUE]

NoTicks == [dt |-> NoDT, ticks |-> EmptyDict]

\* The datetimes of the ticks are not compared.
TicksInitMut(tickDict) ==
    IF DOMAIN tickDict = {} THEN [err |-> "EmptyBatch", batch |-> NoTicks]
    ELSE LET first == CHOOSE i \in DOMAIN tickDict : TRUE
         IN [err |-> "ok", batch |-> [dt |-> tickDict[first].dt, ticks |-> tickDict]]

\* Ticks.__init__: "ok" with the common datetime, or the exception raised.
TicksInit(tickDict) ==
    IF DOMAIN tickDict = {} THEN [err |-> "EmptyBatch", batch |-> NoTicks]
    ELSE LET first == CHOOSE i \in DOMAIN tickDict : TRUE
             firstDateTime == tickDict[first].dt
         IN IF \E i \in DOMAIN tickDict : tickDict[i].dt # firstDateTime
            THEN [err |-> "TimestampMismatch", batch |-> NoTicks]
            ELSE [err |-> "ok", batch |-> [dt |-> firstDateTime, ticks |-> tickDict]]

\* Ticks.getTick(instrument): the tick or None (here: absence from the dict).
HasTick(batch, i) == i \in DOMAIN batch.ticks

(***************************************************************************)
(* tickfeed/memtf.py                                                       *)
(***************************************************************************)
\* list.sort(key=getDateTime): stable insertion of one tick into a sorted list.
RECURSIVE InsertSorted(_, _)
InsertSorted(s, t) ==
    IF s = <<>> THEN <<t>>
    ELSE IF t.dt < Head(s).dt THEN <<t>> \o s
    ELSE <<Head(s)>> \o InsertSorted(Tail(s), t)

RECURSIVE SortByDateTime(_)
SortByDateTime(s) ==
    IF s = <<>> THEN <<>>
    ELSE InsertSorted(SortByDateTime(SubSeq(s, 1, Len(s) - 1)), s[Len(s)])

IsSorted(s) == \A k \in 1..(Len(s) - 1) : s[k].dt <= s[k + 1].dt

\* The feed is at its end as soon as one instrument is exhausted.
EofMut == \E i \in DOMAIN ticks : ~(nextPos[i] < Len(ticks[i]))

\* TickFeed.eof
Eof == \A i \in DOMAIN ticks : ~(nextPos[i] < Len(ticks[i]))

\* The instruments that still have a tick to return.
Pending == {i \in DOMAIN ticks : nextPos[i] < Len(ticks[i])}

\* The largest datetime of the current ticks is taken.
PeekDateTimeMut ==
    IF Pending = {} THEN NoDT
    ELSE LET dts == {ticks[i][nextPos[i] + 1].dt : i \in Pending}
         IN CHOOSE d \in dts : \A e \in dts : d >= e

\* TickFeed.peekDateTime: utils.safe_min over the current ticks, None if there is none.
PeekDateTime ==
    IF Pending = {} THEN NoDT
    ELSE LET dts == {ticks[i][nextPos[i] + 1].dt : i \in Pending}
         IN CHOOSE d \in dts : \A e \in dts : d <= e

\* The duplicate check left out.
IsDuplicateMut(smallestDateTime) == FALSE

\* TickFeed.getNextTicks: the duplicate check against the datetime of the
\* previous batch.
IsDuplicate(smallestDateTime) == currDateTime = smallestDateTime

\* The cursors are moved only when the batch is returned.
GetNextTicksMut ==
    LET smallestDateTime == PeekDateTime
    IN IF smallestDateTime = NoDT
       THEN [err |-> "ok", batch |-> NoTicks, pos |-> nextPos, curr |-> currDateTime]
       ELSE LET sel == {i \in DOMAIN ticks : nextPos[i] < Len(ticks[i])
                            /\ ticks[i][nextPos[i] + 1].dt = smallestDateTime}
                ret == [i \in sel |-> ticks[i][nextPos[i] + 1]]
                pos == [i \in DOMAIN nextPos |-> IF i \in sel THEN nextPos[i] + 1 ELSE nextPos[i]]
            IN IF IsDuplicate(smallestDateTime)
               THEN [err |-> "DuplicateTimestamp", batch |-> NoTicks, pos |-> nextPos, curr |-> currDateTime]
               ELSE LET made == TicksInit(ret)
                    IN [err |-> made.err, batch |-> made.batch, pos |-> pos, curr |-> smallestDateTime]

\* TickFeed.getNextTicks: [err, batch, pos, curr] = the outcome, the batch
\* returned (NoTicks for None), the cursors and __currDateTime afterwards.
GetNextTicks ==
    LET smallestDateTime == PeekDateTime
    IN IF smallestDateTime = NoDT
       THEN [err |-> "ok", batch |-> NoTicks, pos |-> nextPos, curr |-> currDateTime]
       ELSE LET sel == {i \in DOMAIN ticks : nextPos[i] < Len(ticks[i])
                            /\ ticks[i][nextPos[i] + 1].dt = smallestDateTime}
                ret == [i \in sel |-> ticks[i][nextPos[i] + 1]]
                pos == [i \in DOMAIN nextPos |-> IF i \in sel THEN nextPos[i] + 1 ELSE nextPos[i]]
            IN IF IsDuplicate(smallestDateTime)
               THEN [err |-> "DuplicateTimestamp", batch |-> NoTicks, pos |-> pos, curr |-> currDateTime]
               ELSE LET made == TicksInit(ret)
                    IN [err |-> made.err, batch |-> made.batch, pos |-> pos, curr |-> smallestDateTime]

(***************************************************************************)
(* BaseFeed.getNextValues / BaseTickFeed.getNextValues: the values the     *)
(* feed holds after one call, given the outcome r of getNextTicks.         *)
(***************************************************************************)
\* Only the ticks of the batch are kept.
UpdateLastTicksMut(batch) == [i \in DOMAIN batch.ticks |-> batch.ticks[i]]

\* BaseTickFeed.getNextValues: __lastTicks after a batch.
UpdateLastTicks(batch) ==
    [i \in (DOMAIN lastTicks) \cup (DOMAIN batch.ticks) |->
        IF i \in DOMAIN batch.ticks THEN batch.ticks[i] ELSE lastTicks[i]]

(***************************************************************************)
(* pyalgotrade.broker.Order (the base order class, outside src/): the      *)
(* order state machine as the specification describes it.                  *)
(***************************************************************************)
ValidTransitions ==
    { <<"INITIAL", "SUBMITTED">>,
      <<"SUBMITTED", "ACCEPTED">>, <<"SUBMITTED", "CANCELED">>,
      <<"ACCEPTED", "PARTIALLY_FILLED">>, <<"ACCEPTED", "FILLED">>, <<"ACCEPTED", "CANCELED">>,
      <<"PARTIALLY_FILLED", "PARTIALLY_FILLED">>, <<"PARTIALLY_FILLED", "FILLED">>,
      <<"PARTIALLY_FILLED", "CANCELED">> }

\* Order.switchState: legal, or IllegalStateTransition.
CanSwitch(order, newState) == <<order.state, newState>> \in ValidTransitions

\* A state machine that moves an accepted order to the wrong state.
SwitchStateMut(order, newState) ==
    [order EXCEPT !.state = IF newState = "ACCEPTED" THEN "PARTIALLY_FILLED" ELSE newState]

SwitchState(order, newState) == [order EXCEPT !.state = newState]

\* A canceled order counts as active.
IsActiveMut(order) == order.state \in {"SUBMITTED", "ACCEPTED", "PARTIALLY_FILLED", "CANCELED"}

\* Order.isActive
IsActive(order) == order.state \in {"SUBMITTED", "ACCEPTED", "PARTIALLY_FILLED"}

\* Order.getRemaining
Remaining(order) == order.quantity - order.filled

\* IntegerTraits.roundQuantity is int(quantity); every quantity of the model
\* is a whole number, which int() returns unchanged.
RoundQuantity(q) == q

NoExec == [price |-> 0, quantity |-> 0, commission |-> 0, dt |-> NoDT]

\* Order.setSubmitted(id, dateTime)
SetSubmitted(order, id, dt) == [order EXCEPT !.id = id, !.submittedAt = dt]

\* Any execution makes the order FILLED.
AddExecutionInfoMut(order, info) ==
    [order EXCEPT !.hasExec = TRUE, !.exec = info,
                  !.filled = RoundQuantity(order.filled + info.quantity), !.state = "FILLED"]

\* Order.addExecutionInfo: records the execution, adds to filled and
\* switches to FILLED when nothing remains, else to PARTIALLY_FILLED.
AddExecutionInfo(order, info) ==
    LET filled == RoundQuantity(order.filled + info.quantity)
        o1 == [order EXCEPT !.hasExec = TRUE, !.exec = info, !.filled = filled]
    IN SwitchState(o1, IF Remaining(o1) = 0 THEN "FILLED" ELSE "PARTIALLY_FILLED")

\* Order.addExecutionInfo raises when the fill exceeds what remains, or when
\* the state switch is illegal.
AddExecutionInfoRaises(order, info) ==
    \/ info.quantity > Remaining(order)
    \/ ~CanSwitch(order, IF Remaining(order) - info.quantity = 0 THEN "FILLED" ELSE "PARTIALLY_FILLED")

(***************************************************************************)
(* tickbroker/backtesting.py: order constructors.                          *)
(***************************************************************************)
\* setAllOrNone is not applied.
NewOrderMut(tpl) ==
    [id |-> NoId, state |-> "INITIAL", kind |-> tpl.kind, action |-> tpl.action,
     instrument |-> tpl.instrument, quantity |-> tpl.quantity, filled |-> 0,
     gtc |-> tpl.gtc, allOrNone |-> FALSE,
     limitPrice |-> tpl.limitPrice, stopPrice |-> tpl.stopPrice, stopHit |-> FALSE,
     submittedAt |-> NoDT, acceptedAt |-> NoDT, hasExec |-> FALSE, exec |-> NoExec]

\* Broker.createMarketOrder / createLimitOrder / createStopOrder /
\* createStopLimitOrder followed by setGoodTillCanceled and setAllOrNone,
\* as the strategy's marketOrder / limitOrder / ... helpers do.
NewOrder(tpl) ==
    [id |-> NoId, state |-> "INITIAL", kind |-> tpl.kind, action |-> tpl.action,
     instrument |-> tpl.instrument, quantity |-> tpl.quantity, filled |-> 0,
     gtc |-> tpl.gtc, allOrNone |-> tpl.allOrNone,
     limitPrice |-> tpl.limitPrice, stopPrice |-> tpl.stopPrice, stopHit |-> FALSE,
     submittedAt |-> NoDT, acceptedAt |-> NoDT, hasExec |-> FALSE, exec |-> NoExec]

(***************************************************************************)
(* Program constants.                                                      *)
(***************************************************************************)
\* DefaultStrategy.onTicks: the volume available at every tick.
TickVolume == 10000
\* FixedPerTrade(amount): the amount of the runs with a fixed commission.
FixedAmount == 5
\* get_limit_price_trigger / get_stop_price_trigger take (action, price, tick) ...
TriggerParams == 3
\* ... and DefaultStrategy calls them with (action, price, useAdjusted, tick).
TriggerCallArgs == 4
\* tick.py defines no Frequency, which Broker.__postProcessOrder and
\* fillStopOrder read as pyalgotrade.tick.Frequency.
TickModuleHasFrequency == FALSE
\* Tick defines getBid and getAsk only: fillStopOrder calls tick.getOpen.
TickHasGetOpen == FALSE

\* BasicTick.getFrequency / BaseTickFeed.getFrequency
TickFrequency == "TRADE"

FeedFrequency == "TRADE"

\* BaseTickFeed.__init__: self.__frequency, which nothing assigns afterwards.
FeedFrequencyField == "TRADE"

\* bar.Frequency orders TRADE < SECOND < MINUTE < HOUR < DAY < WEEK < MONTH.
FrequencyRank(f) ==
    CASE f = "TRADE" -> 0 [] f = "SECOND" -> 1 [] f = "MINUTE" -> 2 [] f = "HOUR" -> 3
      [] f = "DAY" -> 4 [] f = "WEEK" -> 5 [] f = "MONTH" -> 6

(***************************************************************************)
(* Order events and the record of the last call.                           *)
(***************************************************************************)
\* Broker.notifyOrderEvent(OrderEvent(order, type, info)): what the handler
\* sees when the event is delivered.
OrderEvent(type, o, order, active, info, reason) ==
    [type |-> type, order |-> o, id |-> order.id, dt |-> currDateTime,
     state |-> order.state, registered |-> order.id \in DOMAIN active,
     action |-> order.action, instrument |-> order.instrument,
     exec |-> info, reason |-> reason,
     during |-> IF pc \in {"init", "strategy"} THEN pc ELSE "broker",
     strategyBegun |-> \E k \in 1..Len(handlerLog) : handlerLog[k] = <<"strategy", "begin">>]

Call(op, o, result) == [op |-> op, order |-> o, result |-> result]

\* No call of user code is being reported: a step of the run itself.
NoCall == Call("none", 0, "ok")

\* User code runs before the run, inside the strategy's onTicks and inside
\* the strategy's order-event handler (BaseTickStrategy.__onOrderEvent).
UserRunning == pc \in {"init", "strategy"} \/ (cb /\ pc \in {"loop", "process", "post"})

(***************************************************************************)
(* tickbroker/backtesting.py: operations called by user code.              *)
(***************************************************************************)
\* The id handed out is the one before the counter: ids start at 0 and the
\* second order gets the id of the first.
GetNextOrderIdMut == nextOrderId - 1

\* Broker._getNextOrderId
GetNextOrderId == nextOrderId

\* The order is not registered.
RegisterOrderMut(active, o, order) == active

\* Broker._registerOrder
RegisterOrder(active, o, order) == DictSet(active, order.id, o)

\* Broker._unregisterOrder
UnregisterOrder(active, order) == DictDel(active, order.id)

\* Any order is taken as new.
AlreadyProcessedMut(order) == FALSE

\* Broker.submitOrder: "The order was already processed".
AlreadyProcessed(order) == order.state # "INITIAL"

\* Broker.createMarketOrder / createLimitOrder / createStopOrder / createStopLimitOrder
CreateOrder ==
    /\ pc = "init"
    /\ Len(orders) < Len(config.pool)
    /\ orders' = Append(orders, NewOrder(config.pool[Len(orders) + 1]))
    /\ lastCall' = Call("create", Len(orders) + 1, "ok")
    /\ UNCHANGED <<feedVars, brokerVars, fillVars, ctlVars, events, handlerLog, emitted>>
    /\ UNCHANGED firstRun

\* No feed is taken as intraday.
IsIntradayMut == FALSE

\* BaseTickFeed.isIntraday
IsIntraday == FrequencyRank(FeedFrequencyField) < FrequencyRank("DAY")

\* Broker.createMarketOrder(action, instrument, quantity, onClose=True).
\* DefaultStrategy.fillMarketOrder takes the bid for either value of
\* getFillOnClose, so the order record does not keep the flag.
CreateMarketOrderOnClose ==
    /\ pc = "init"
    /\ Len(orders) < Len(config.pool)
    /\ config.pool[Len(orders) + 1].kind = "MARKET"
    /\ IF IsIntraday
       THEN /\ lastCall' = Call("createOnClose", 0, "MarketOnCloseNotSupported")
            /\ UNCHANGED orders
       ELSE /\ orders' = Append(orders, NewOrder(config.pool[Len(orders) + 1]))
            /\ lastCall' = Call("createOnClose", Len(orders) + 1, "ok")
    /\ UNCHANGED <<feedVars, brokerVars, fillVars, ctlVars, events, handlerLog, emitted>>
    /\ UNCHANGED firstRun

\* Broker.submitOrder
SubmitOrder(o) ==
    /\ UserRunning
    /\ o \in 1..Len(orders)
    /\ IF AlreadyProcessed(orders[o])
       THEN /\ lastCall' = Call("submit", o, "AlreadyProcessed")
            /\ UNCHANGED <<nextOrderId, activeOrders, orders, events>>
       ELSE LET submitted == SetSubmitted(orders[o], GetNextOrderId, currDateTime)
                active == RegisterOrder(activeOrders, o, submitted)
                order == SwitchState(submitted, "SUBMITTED")
            IN /\ nextOrderId' = nextOrderId + 1
               /\ activeOrders' = active
               /\ IF ~CanSwitch(submitted, "SUBMITTED")
                  THEN /\ orders' = [orders EXCEPT ![o] = submitted]
                       /\ lastCall' = Call("submit", o, "IllegalStateTransition")
                       /\ UNCHANGED events
                  ELSE /\ orders' = [orders EXCEPT ![o] = order]
                       /\ events' = Append(events, OrderEvent("SUBMITTED", o, order, active, NoExec, "none"))
                       /\ lastCall' = Call("submit", o, "ok")
    /\ UNCHANGED <<feedVars, cash, shares, instrumentPrice, brokerStarted, config, fillVars, ctlVars,
                   handlerLog, emitted>>
    /\ UNCHANGED firstRun

\* The cancellation is notified but the order stays registered and keeps
\* its state.
CancelOrderMut(o) ==
    /\ UserRunning
    /\ o \in 1..Len(orders)
    /\ IF orders[o].id \notin DOMAIN activeOrders
       THEN /\ lastCall' = Call("cancel", o, "NotActive")
            /\ UNCHANGED events
       ELSE LET a == activeOrders[orders[o].id]
            IN /\ events' = Append(events, OrderEvent("CANCELED", a, orders[a], activeOrders, NoExec,
                                                      "User requested cancellation"))
               /\ lastCall' = Call("cancel", o, "ok")
    /\ UNCHANGED <<activeOrders, orders>>
    /\ UNCHANGED <<feedVars, cash, shares, instrumentPrice, nextOrderId, brokerStarted, config, fillVars,
                   ctlVars, handlerLog, emitted>>
    /\ UNCHANGED firstRun

\* Broker.cancelOrder
CancelOrder(o) ==
    /\ UserRunning
    /\ o \in 1..Len(orders)
    /\ IF orders[o].id \notin DOMAIN activeOrders
       THEN /\ lastCall' = Call("cancel", o, "NotActive")
            /\ UNCHANGED <<activeOrders, orders, events>>
       ELSE LET a == activeOrders[orders[o].id]
            IN IF orders[a].state = "FILLED"
               THEN /\ lastCall' = Call("cancel", o, "AlreadyFilled")
                    /\ UNCHANGED <<activeOrders, orders, events>>
               ELSE IF ~CanSwitch(orders[a], "CANCELED")
               THEN /\ activeOrders' = UnregisterOrder(activeOrders, orders[a])
                    /\ lastCall' = Call("cancel", o, "IllegalStateTransition")
                    /\ UNCHANGED <<orders, events>>
               ELSE LET active == UnregisterOrder(activeOrders, orders[a])
                        order == SwitchState(orders[a], "CANCELED")
                    IN /\ activeOrders' = active
                       /\ orders' = [orders EXCEPT ![a] = order]
                       /\ events' = Append(events, OrderEvent("CANCELED", a, order, active, NoExec,
                                                              "User requested cancellation"))
                       /\ lastCall' = Call("cancel", o, "ok")
    /\ UNCHANGED <<feedVars, cash, shares, instrumentPrice, nextOrderId, brokerStarted, config, fillVars,
                   ctlVars, handlerLog, emitted>>
    /\ UNCHANGED firstRun

\* The amounts user code gives to Broker.setCash (none below zero).
CashAmounts == {0, 500}

\* Broker.setCash, called during the run (before the run it amounts to
\* another cash argument of the constructor).
SetCash(c) ==
    /\ UserRunning
    /\ pc # "init"
    /\ cash' = c
    /\ lastCall' = Call("setCash", 0, "ok")
    /\ UNCHANGED <<feedVars, shares, instrumentPrice, activeOrders, nextOrderId, brokerStarted, config,
                   fillVars, orders, ctlVars, events, handlerLog, emitted>>
    /\ UNCHANGED firstRun

\* BaseTickStrategy.__onOrderEvent returns to the broker.
CallbackReturn ==
    /\ cb
    /\ pc \in {"loop", "process", "post"}
    /\ cb' = FALSE
    /\ lastCall' = NoCall
    /\ UNCHANGED <<feedVars, brokerVars, fillVars, orders, pc, hIdx, cohort, cIdx, events, handlerLog, emitted>>
    /\ UNCHANGED firstRun

(***************************************************************************)
(* The dispatcher's run (pyalgotrade.dispatcher, outside src/): start the  *)
(* subjects, then dispatch the feed until it is at eof.                    *)
(***************************************************************************)
\* Dispatcher.run: start() of the broker and of the feed.
Start ==
    /\ pc = "init"
    /\ pc' = "idle"
    /\ feedStarted' = TRUE
    /\ brokerStarted' = TRUE
    /\ lastCall' = Call("start", 0, "ok")
    /\ UNCHANGED <<ticks, nextPos, currDateTime, currentTicks, lastTicks, subscribers,
                   cash, shares, instrumentPrice, activeOrders, nextOrderId, config,
                   fillVars, orders, hIdx, cohort, cIdx, cb, events, handlerLog, emitted>>
    /\ UNCHANGED firstRun

\* BaseFeed.dispatch -> BaseTickFeed.getNextValues -> TickFeed.getNextTicks,
\* then the emission of the new-values event.  An exception leaves the run.
Dispatch ==
    /\ pc = "idle"
    /\ ~Eof
    /\ LET r == GetNextTicks
       IN /\ nextPos' = r.pos
          /\ currDateTime' = r.curr
          /\ IF r.err # "ok"
             THEN /\ pc' = "crashed"
                  /\ lastCall' = Call("dispatch", 0, r.err)
                  /\ UNCHANGED <<currentTicks, lastTicks, hIdx, handlerLog, emitted>>
             ELSE /\ currentTicks' = r.batch
                  /\ lastTicks' = UpdateLastTicks(r.batch)
                  /\ emitted' = Append(emitted, r.batch.dt)
                  /\ handlerLog' = <<>>
                  /\ hIdx' = 1
                  /\ pc' = "emit"
                  /\ lastCall' = Call("dispatch", 0, "ok")
    /\ UNCHANGED <<ticks, feedStarted, subscribers, brokerVars, fillVars, orders, cohort, cIdx, cb, events>>
    /\ UNCHANGED firstRun

\* Event.emit: every handler has run.
EmitDone ==
    /\ pc = "emit"
    /\ hIdx > Len(subscribers)
    /\ pc' = "idle"
    /\ lastCall' = NoCall
    /\ UNCHANGED <<feedVars, brokerVars, fillVars, orders, hIdx, cohort, cIdx, cb, events, handlerLog, emitted>>
    /\ UNCHANGED firstRun

\* Dispatcher.run ends when every subject is at eof (Broker.eof is the feed's eof).
Stop ==
    /\ pc = "idle"
    /\ Eof
    /\ pc' = "done"
    /\ lastCall' = Call("stop", 0, "ok")
    /\ UNCHANGED <<feedVars, brokerVars, fillVars, orders, hIdx, cohort, cIdx, cb, events, handlerLog, emitted>>
    /\ UNCHANGED firstRun

\* BaseTickStrategy.__onTicks: the strategy's onTicks starts ...
StrategyOnTicks ==
    /\ pc = "emit"
    /\ hIdx <= Len(subscribers)
    /\ subscribers[hIdx] = "strategy"
    /\ pc' = "strategy"
    /\ handlerLog' = Append(handlerLog, <<"strategy", "begin">>)
    /\ lastCall' = NoCall
    /\ UNCHANGED <<feedVars, brokerVars, fillVars, orders, hIdx, cohort, cIdx, cb, events, emitted>>
    /\ UNCHANGED firstRun

\* ... and returns.
StrategyReturn ==
    /\ pc = "strategy"
    /\ pc' = "emit"
    /\ hIdx' = hIdx + 1
    /\ handlerLog' = Append(handlerLog, <<"strategy", "end">>)
    /\ lastCall' = NoCall
    /\ UNCHANGED <<feedVars, brokerVars, fillVars, orders, cohort, cIdx, cb, events, emitted>>
    /\ UNCHANGED firstRun

(***************************************************************************)
(* tickbroker/fillstrategy.py                                              *)
(***************************************************************************)
NoFill(stopHit) == [err |-> "ok", fill |-> FALSE, price |-> 0, size |-> 0, stopHit |-> stopHit]

FillInfo(price, size, stopHit) == [err |-> "ok", fill |-> TRUE, price |-> price, size |-> size, stopHit |-> stopHit]

FillError(err, stopHit) == [err |-> err, fill |-> FALSE, price |-> 0, size |-> 0, stopHit |-> stopHit]

\* slippage.NoSlippage.calculatePrice
NoSlippage(price) == price

\* get_limit_price_trigger / get_stop_price_trigger as DefaultStrategy calls
\* them: the call fails on the number of arguments; the body returns the bid.
PriceTrigger(tick) ==
    IF TriggerCallArgs # TriggerParams THEN [err |-> "TypeError", price |-> 0]
    ELSE IF ~tick.bidSet THEN [err |-> "AttributeError", price |-> 0]
    ELSE [err |-> "ok", price |-> tick.bid]

\* DefaultStrategy.onTicks: __volumeLeft for the batch.
VolumeLeftOnTicks(batch) ==
    LET withVolume == {i \in DOMAIN batch.ticks : TickFrequency = "TRADE" \/ config.volumeLimit}
    IN [i \in withVolume |-> TickVolume]

\* DefaultStrategy.onTicks: __volumeUsed for the batch.
VolumeUsedOnTicks(batch) ==
    [i \in (DOMAIN volumeUsed) \cup (DOMAIN batch.ticks) |->
        IF i \in DOMAIN batch.ticks THEN 0 ELSE volumeUsed[i]]

\* The volume left is not looked at.
CalculateFillSizeMut(order) == Remaining(order)

\* DefaultStrategy.__calculateFillSize
CalculateFillSize(order) ==
    LET maxVolume == IF config.volumeLimit
                     THEN RoundQuantity(DictGet(volumeLeft, order.instrument, 0))
                     ELSE Remaining(order)
    IN IF ~order.allOrNone THEN Min2(maxVolume, Remaining(order))
       ELSE IF Remaining(order) <= maxVolume THEN Remaining(order)
       ELSE 0

\* A market order is filled one above the bid.
FillMarketOrderMut(order, tick) ==
    LET fillSize == CalculateFillSize(order)
    IN IF fillSize = 0 THEN NoFill(order.stopHit)
       ELSE IF ~tick.bidSet THEN FillError("AttributeError", order.stopHit)
       ELSE FillInfo(tick.bid + 1, fillSize, order.stopHit)

\* DefaultStrategy.fillMarketOrder
FillMarketOrder(order, tick) ==
    LET fillSize == CalculateFillSize(order)
    IN IF fillSize = 0 THEN NoFill(order.stopHit)
       ELSE IF ~tick.bidSet THEN FillError("AttributeError", order.stopHit)
       ELSE FillInfo(IF TickFrequency # "TRADE" THEN NoSlippage(tick.bid) ELSE tick.bid,
                     fillSize, order.stopHit)

\* DefaultStrategy.fillLimitOrder
FillLimitOrder(order, tick) ==
    LET fillSize == CalculateFillSize(order)
        trigger == PriceTrigger(tick)
    IN IF fillSize = 0 THEN NoFill(order.stopHit)
       ELSE IF trigger.err # "ok" THEN FillError(trigger.err, order.stopHit)
       ELSE FillInfo(trigger.price, fillSize, order.stopHit)

\* DefaultStrategy.fillStopOrder
FillStopOrder(order, tick) ==
    LET trigger == PriceTrigger(tick)
        fillSize == CalculateFillSize(order)
    IN IF ~order.stopHit /\ trigger.err # "ok" THEN FillError(trigger.err, FALSE)
       ELSE \* the trigger is the bid, never None: the stop is hit
            IF fillSize = 0 THEN NoFill(TRUE)
            ELSE IF order.stopHit /\ ~TickHasGetOpen THEN FillError("AttributeError", TRUE)
            ELSE IF order.stopHit /\ ~tick.bidSet THEN FillError("AttributeError", TRUE)
            ELSE IF ~TickModuleHasFrequency THEN FillError("AttributeError", TRUE)
            ELSE FillInfo(IF TickFrequency # "TRADE" THEN NoSlippage(tick.bid) ELSE tick.bid,
                          fillSize, TRUE)

\* DefaultStrategy.fillStopLimitOrder
FillStopLimitOrder(order, tick) ==
    LET trigger == PriceTrigger(tick)
        fillSize == CalculateFillSize(order)
    IN IF ~order.stopHit /\ trigger.err # "ok" THEN FillError(trigger.err, FALSE)
       ELSE IF fillSize = 0 THEN NoFill(TRUE)
            ELSE IF trigger.err # "ok" THEN FillError(trigger.err, TRUE)
            ELSE IF order.stopHit THEN FillInfo(trigger.price, fillSize, TRUE)
            ELSE IF order.action = "BUY"
                 THEN FillInfo(Min2(trigger.price, order.limitPrice), fillSize, TRUE)
                 ELSE FillInfo(Max2(trigger.price, order.limitPrice), fillSize, TRUE)

\* MarketOrder.process / LimitOrder.process / StopOrder.process / StopLimitOrder.process
Process(order, tick) ==
    CASE order.kind = "MARKET" -> FillMarketOrder(order, tick)
      [] order.kind = "LIMIT" -> FillLimitOrder(order, tick)
      [] order.kind = "STOP" -> FillStopOrder(order, tick)
      [] order.kind = "STOP_LIMIT" -> FillStopLimitOrder(order, tick)

(***************************************************************************)
(* tickbroker/backtesting.py: commissions and the commit of an execution.  *)
(***************************************************************************)
\* The fixed amount is charged on every execution.
CommissionMut(order, price, quantity) ==
    IF config.commission = "fixed" THEN FixedAmount ELSE 0

\* NoCommission.calculate / FixedPerTrade.calculate
Commission(order, price, quantity) ==
    IF config.commission = "fixed" /\ ~order.hasExec THEN FixedAmount ELSE 0

\* A buy is credited like a sale.
CostMut(order, price, quantity) == price * quantity

\* Broker.commitOrderExecution: price * quantity, negative for a buy.
Cost(order, price, quantity) ==
    IF order.action = "BUY" THEN price * quantity * (0 - 1) ELSE price * quantity

\* A sale adds to the position.
SharesDeltaMut(order, quantity) == quantity

\* Broker.commitOrderExecution: the change of the position.
SharesDelta(order, quantity) ==
    IF order.action = "BUY" THEN quantity ELSE quantity * (0 - 1)

\* The commission is not charged.
ResultingCashMut(order, price, quantity) == cash + Cost(order, price, quantity)

\* Broker.commitOrderExecution: cash after the execution and its commission.
ResultingCash(order, price, quantity) ==
    cash + (Cost(order, price, quantity) - Commission(order, price, quantity))

\* The cash is checked before the execution instead of after it.
EnoughCashMut(resultingCash) == cash >= 0 \/ config.allowNegativeCash

\* Broker.commitOrderExecution: "we're ok on cash after the commission".
EnoughCash(resultingCash) == resultingCash >= 0 \/ config.allowNegativeCash

\* Broker.getShares
GetShares(instrument) == DictGet(shares, instrument, 0)

\* A filled order stays registered.
ActiveAfterExecutionMut(order) == activeOrders

\* Broker.commitOrderExecution: the order leaves __activeOrders when filled.
ActiveAfterExecution(order) ==
    IF order.state = "FILLED" THEN UnregisterOrder(activeOrders, order) ELSE activeOrders

\* The volume taken by a fill is not subtracted.
VolumeLeftAfterFillMut(order) == volumeLeft

\* DefaultStrategy.onOrderFilled: __volumeLeft
VolumeLeftAfterFill(order) ==
    IF config.volumeLimit
    THEN DictSet(volumeLeft, order.instrument,
                 RoundQuantity(RoundQuantity(volumeLeft[order.instrument]) - order.exec.quantity))
    ELSE volumeLeft

\* The volume taken by a fill is not added to the volume used.
VolumeUsedAfterFillMut(order) == volumeUsed

\* DefaultStrategy.onOrderFilled: __volumeUsed
VolumeUsedAfterFill(order) ==
    DictSet(volumeUsed, order.instrument,
            RoundQuantity(volumeUsed[order.instrument] + order.exec.quantity))

(***************************************************************************)
(* tickbroker/backtesting.py: Broker.onTicks and the processing of one     *)
(* order of the cohort.  A step runs the code up to the next order event   *)
(* (whose handler may call the broker again) or to the end of the order.   *)
(***************************************************************************)
\* list(self.__activeOrders.values()): the active orders in insertion
\* order, which is the order of their ids.
RECURSIVE ValuesFrom(_, _)
ValuesFrom(active, id) ==
    IF \A k \in DOMAIN active : k < id THEN <<>>
    ELSE IF id \in DOMAIN active THEN <<active[id]>> \o ValuesFrom(active, id + 1)
    ELSE ValuesFrom(active, id + 1)

ActiveOrderList == ValuesFrom(activeOrders, 1)

\* A loop over the live orders: what is registered meanwhile joins the loop.
OrdersToProcessMut ==
    cohort \o SelectSeq(ActiveOrderList, LAMBDA o : \A k \in 1..Len(cohort) : cohort[k] # o)

\* Broker.onTicks: the orders the loop goes through (the frozen list).
OrdersToProcess == cohort

\* An exception leaves Broker.onTicks, the emission and the run.
Raise(err) ==
    /\ pc' = "crashed"
    /\ lastCall' = Call("dispatch", 0, err)

\* Broker.onTicks: the fill strategy's onTicks, then the frozen cohort.
BrokerOnTicks ==
    /\ pc = "emit"
    /\ hIdx <= Len(subscribers)
    /\ subscribers[hIdx] = "broker"
    /\ volumeLeft' = VolumeLeftOnTicks(currentTicks)
    /\ volumeUsed' = VolumeUsedOnTicks(currentTicks)
    /\ cohort' = ActiveOrderList
    /\ cIdx' = 1
    /\ pc' = "loop"
    /\ handlerLog' = Append(handlerLog, <<"broker", "begin">>)
    /\ lastCall' = NoCall
    /\ UNCHANGED <<feedVars, brokerVars, orders, hIdx, cb, events, emitted>>
    /\ UNCHANGED firstRun

\* Broker.onTicks: the loop is over.
BrokerOnTicksEnd ==
    /\ pc = "loop"
    /\ ~cb
    /\ cIdx > Len(OrdersToProcess)
    /\ pc' = "emit"
    /\ hIdx' = hIdx + 1
    /\ handlerLog' = Append(handlerLog, <<"broker", "end">>)
    /\ lastCall' = NoCall
    /\ UNCHANGED <<feedVars, brokerVars, fillVars, orders, cohort, cIdx, cb, events, emitted>>
    /\ UNCHANGED firstRun

\* A SUBMITTED order is accepted whether or not the batch has a tick for its
\* instrument.
OnTicksImplMut ==
    /\ pc = "loop"
    /\ ~cb
    /\ cIdx <= Len(OrdersToProcess)
    /\ LET o == OrdersToProcess[cIdx]
           order == orders[o]
       IN IF order.state = "SUBMITTED"
          THEN LET accepted == SwitchState([order EXCEPT !.acceptedAt = currentTicks.dt], "ACCEPTED")
               IN /\ orders' = [orders EXCEPT ![o] = accepted]
                  /\ events' = Append(events, OrderEvent("ACCEPTED", o, accepted, activeOrders, NoExec, "none"))
                  /\ cb' = TRUE
                  /\ IF HasTick(currentTicks, order.instrument)
                     THEN pc' = "process" /\ UNCHANGED cIdx
                     ELSE cIdx' = cIdx + 1 /\ UNCHANGED pc
          ELSE IF ~HasTick(currentTicks, order.instrument)
          THEN /\ cIdx' = cIdx + 1
               /\ UNCHANGED <<orders, pc, cb, events>>
          ELSE /\ pc' = "process"
               /\ UNCHANGED <<orders, cIdx, cb, events>>
    /\ lastCall' = NoCall
    /\ UNCHANGED <<feedVars, brokerVars, fillVars, hIdx, cohort, handlerLog, emitted>>
    /\ UNCHANGED firstRun

\* Broker.__onTicksImpl: skip the order when the batch has no tick for its
\* instrument; accept it when it is SUBMITTED.
OnTicksImpl ==
    /\ pc = "loop"
    /\ ~cb
    /\ cIdx <= Len(OrdersToProcess)
    /\ LET o == OrdersToProcess[cIdx]
           order == orders[o]
       IN IF ~HasTick(currentTicks, order.instrument)
          THEN /\ cIdx' = cIdx + 1
               /\ UNCHANGED <<orders, pc, cb, events>>
          ELSE IF order.state = "SUBMITTED"
          THEN LET tick == currentTicks.ticks[order.instrument]
                   accepted == SwitchState([order EXCEPT !.acceptedAt = tick.dt], "ACCEPTED")
               IN /\ orders' = [orders EXCEPT ![o] = accepted]
                  /\ events' = Append(events, OrderEvent("ACCEPTED", o, accepted, activeOrders, NoExec, "none"))
                  /\ cb' = TRUE
                  /\ pc' = "process"
                  /\ UNCHANGED cIdx
          ELSE /\ pc' = "process"
               /\ UNCHANGED <<orders, cIdx, cb, events>>
    /\ lastCall' = NoCall
    /\ UNCHANGED <<feedVars, brokerVars, fillVars, hIdx, cohort, handlerLog, emitted>>
    /\ UNCHANGED firstRun

\* Broker.__preProcessOrder: a non-GTC order expires at the first tick of a later date.
ExpiredBefore(order, tick) == ~order.gtc /\ DateOf(tick.dt) > DateOf(order.acceptedAt)

\* Broker.__preProcessOrder / __postProcessOrder: unregister, CANCELED, event "Expired".
Expire(o) ==
    LET active == UnregisterOrder(activeOrders, orders[o])
        order == SwitchState(orders[o], "CANCELED")
    IN /\ activeOrders' = active
       /\ orders' = [orders EXCEPT ![o] = order]
       /\ events' = Append(events, OrderEvent("CANCELED", o, order, active, NoExec, "Expired"))
       /\ cb' = TRUE

\* Any execution is reported as FILLED.
FillEventTypeMut(order) == IF order.hasExec THEN "FILLED" ELSE "PARTIALLY_FILLED"

\* Broker.commitOrderExecution: the event of an execution.
FillEventType(order) == IF order.state = "FILLED" THEN "FILLED" ELSE "PARTIALLY_FILLED"

\* Broker.commitOrderExecution, once the cash check has passed.
CommitOrderExecution(o, tick, fill) ==
    LET order == orders[o]
        commission == Commission(order, fill.price, fill.size)
        info == [price |-> fill.price, quantity |-> fill.size, commission |-> commission, dt |-> tick.dt]
        executed == [AddExecutionInfo(order, info) EXCEPT !.stopHit = fill.stopHit]
        updatedShares == RoundQuantity(GetShares(order.instrument) + SharesDelta(order, fill.size))
        active == ActiveAfterExecution(executed)
    IN IF AddExecutionInfoRaises(order, info)
       THEN /\ Raise("Exception")
            /\ orders' = [orders EXCEPT ![o].stopHit = fill.stopHit]
            /\ UNCHANGED <<cash, shares, activeOrders, fillVars, events, cb>>
       ELSE /\ orders' = [orders EXCEPT ![o] = executed]
            /\ cash' = ResultingCash(order, fill.price, fill.size)
            /\ IF updatedShares = 0 /\ order.instrument \notin DOMAIN shares
               THEN /\ Raise("KeyError")
                    /\ UNCHANGED <<shares, activeOrders, fillVars, events, cb>>
               ELSE /\ shares' = IF updatedShares = 0 THEN DictDel(shares, order.instrument)
                                  ELSE DictSet(shares, order.instrument, updatedShares)
                    /\ IF config.volumeLimit
                          /\ RoundQuantity(volumeLeft[order.instrument]) < fill.size
                       THEN /\ Raise("AssertionError")
                            /\ UNCHANGED <<activeOrders, fillVars, events, cb>>
                       ELSE /\ volumeLeft' = VolumeLeftAfterFill(executed)
                            /\ volumeUsed' = VolumeUsedAfterFill(executed)
                            /\ activeOrders' = active
                            /\ events' = Append(events,
                                   OrderEvent(FillEventType(executed), o, executed, active, info, "none"))
                            /\ cb' = TRUE
                            /\ pc' = "post"
                            /\ lastCall' = NoCall

\* Broker.__onTicksImpl / __processOrder: expiry check, fill, commit.
ProcessOrder ==
    /\ pc = "process"
    /\ ~cb
    /\ LET o == OrdersToProcess[cIdx]
           order == orders[o]
           tick == currentTicks.ticks[order.instrument]
           fill == Process(order, tick)
       IN IF ~IsActive(order)
          THEN \* canceled from a handler in this same loop
               /\ IF order.state = "CANCELED"
                  THEN pc' = "loop" /\ cIdx' = cIdx + 1 /\ lastCall' = NoCall
                  ELSE Raise("AssertionError") /\ UNCHANGED cIdx
               /\ UNCHANGED <<cash, shares, activeOrders, fillVars, orders, events, cb>>
          ELSE IF ExpiredBefore(order, tick)
          THEN /\ Expire(o)
               /\ pc' = "loop"
               /\ cIdx' = cIdx + 1
               /\ lastCall' = NoCall
               /\ UNCHANGED <<cash, shares, fillVars>>
          ELSE IF fill.err # "ok"
          THEN /\ Raise(fill.err)
               /\ orders' = [orders EXCEPT ![o].stopHit = fill.stopHit]
               /\ UNCHANGED <<cash, shares, activeOrders, fillVars, events, cb, cIdx>>
          ELSE IF fill.fill /\ EnoughCash(ResultingCash(order, fill.price, fill.size))
          THEN /\ CommitOrderExecution(o, tick, fill)
               /\ UNCHANGED cIdx
          ELSE \* no fill, or not enough cash: the order stays as it is
               /\ orders' = [orders EXCEPT ![o].stopHit = fill.stopHit]
               /\ pc' = "post"
               /\ lastCall' = NoCall
               /\ UNCHANGED <<cash, shares, activeOrders, fillVars, events, cb, cIdx>>
    /\ UNCHANGED <<feedVars, instrumentPrice, nextOrderId, brokerStarted, config, hIdx, cohort,
                   handlerLog, emitted>>
    /\ UNCHANGED firstRun

\* Broker.__postProcessOrder: with daily or greater ticks a non-GTC order
\* expires right after the tick at which it was processed.
ExpiredAfter(order, tick) ==
    /\ FrequencyRank(FeedFrequency) >= FrequencyRank("DAY")
    /\ DateOf(tick.dt) >= DateOf(order.acceptedAt)

\* Broker.__processOrder: the order, if still active, is post-processed.
PostProcessOrder ==
    /\ pc = "post"
    /\ ~cb
    /\ LET o == OrdersToProcess[cIdx]
           order == orders[o]
           tick == currentTicks.ticks[order.instrument]
       IN IF IsActive(order) /\ ~order.gtc
          THEN IF ~TickModuleHasFrequency
               THEN /\ Raise("AttributeError")
                    /\ UNCHANGED <<activeOrders, orders, events, cb, cIdx>>
               ELSE IF ExpiredAfter(order, tick)
               THEN /\ Expire(o)
                    /\ pc' = "loop"
                    /\ cIdx' = cIdx + 1
                    /\ lastCall' = NoCall
               ELSE /\ pc' = "loop"
                    /\ cIdx' = cIdx + 1
                    /\ lastCall' = NoCall
                    /\ UNCHANGED <<activeOrders, orders, events, cb>>
          ELSE /\ pc' = "loop"
               /\ cIdx' = cIdx + 1
               /\ lastCall' = NoCall
               /\ UNCHANGED <<activeOrders, orders, events, cb>>
    /\ UNCHANGED <<feedVars, cash, shares, instrumentPrice, nextOrderId, brokerStarted, config,
                   fillVars, hIdx, cohort, handlerLog, emitted>>
    /\ UNCHANGED firstRun

(***************************************************************************)
(* tickfeed/memtf.py: loading and direct consumption of a feed.            *)
(***************************************************************************)
\* The ticks a loader may hand to the feed.
TickPool == {RestoredTick(dt, 2) : dt \in DateTimes} \cup {BasicTick(1, 2)}

TickSeqs == {<<t>> : t \in TickPool} \cup {<<t, u>> : t \in TickPool, u \in TickPool}

\* TickFeed.addTicksFromSequence
AddTicks(i, seq) ==
    /\ IF feedStarted
       THEN /\ lastCall' = Call("addTicks", 0, "FeedLocked")
            /\ UNCHANGED <<ticks, nextPos>>
       ELSE /\ ticks' = DictSet(ticks, i, SortByDateTime(DictGet(ticks, i, <<>>) \o seq))
            /\ nextPos' = DictSet(nextPos, i, DictGet(nextPos, i, 0))
            /\ lastCall' = Call("addTicks", 0, "ok")
    /\ UNCHANGED <<feedStarted, currDateTime, currentTicks, lastTicks, subscribers,
                   brokerVars, fillVars, orders, ctlVars, events, handlerLog, emitted>>
    /\ UNCHANGED firstRun

\* TickFeed.start
FeedStart ==
    /\ ~feedStarted
    /\ feedStarted' = TRUE
    /\ lastCall' = Call("start", 0, "ok")
    /\ UNCHANGED <<ticks, nextPos, currDateTime, currentTicks, lastTicks, subscribers,
                   brokerVars, fillVars, orders, ctlVars, events, handlerLog, emitted>>
    /\ UNCHANGED firstRun

\* The values of the feed are replaced before the failure of getNextTicks shows.
NextValuesMut ==
    /\ LET r == GetNextTicks
       IN /\ nextPos' = r.pos
          /\ currDateTime' = r.curr
          /\ lastCall' = Call("nextValues", 0, IF r.err = "ok" /\ r.batch = NoTicks THEN "None" ELSE r.err)
          /\ IF r.err = "ok" /\ r.batch = NoTicks
             THEN UNCHANGED <<currentTicks, lastTicks, emitted>>
             ELSE /\ currentTicks' = r.batch
                  /\ lastTicks' = UpdateLastTicks(r.batch)
                  /\ emitted' = IF r.err = "ok" THEN Append(emitted, r.batch.dt) ELSE emitted
    /\ UNCHANGED <<ticks, feedStarted, subscribers, brokerVars, fillVars, orders, ctlVars, events, handlerLog>>
    /\ UNCHANGED firstRun

\* BaseTickFeed.getNextValues called by a caller that handles its exception.
NextValues ==
    /\ LET r == GetNextTicks
       IN /\ nextPos' = r.pos
          /\ currDateTime' = r.curr
          /\ lastCall' = Call("nextValues", 0, IF r.err = "ok" /\ r.batch = NoTicks THEN "None" ELSE r.err)
          /\ IF r.err # "ok" \/ r.batch = NoTicks
             THEN UNCHANGED <<currentTicks, lastTicks, emitted>>
             ELSE /\ currentTicks' = r.batch
                  /\ lastTicks' = UpdateLastTicks(r.batch)
                  /\ emitted' = Append(emitted, r.batch.dt)
    /\ UNCHANGED <<ticks, feedStarted, subscribers, brokerVars, fillVars, orders, ctlVars, events, handlerLog>>
    /\ UNCHANGED firstRun

\* The record of a call that returns a value.
ValueCall(op, value) == [op |-> op, order |-> 0, result |-> "ok", value |-> value]

\* TickFeed.peekDateTime called directly.
PeekCall ==
    /\ lastCall' = ValueCall("peekDateTime", PeekDateTime)
    /\ UNCHANGED <<feedVars, brokerVars, fillVars, orders, ctlVars, events, handlerLog, emitted>>
    /\ UNCHANGED firstRun

\* TickFeed.eof called directly.
EofCall ==
    /\ lastCall' = ValueCall("eof", Eof)
    /\ UNCHANGED <<feedVars, brokerVars, fillVars, orders, ctlVars, events, handlerLog, emitted>>
    /\ UNCHANGED firstRun

\* The mappings a caller may hand to the constructor of Ticks.
TickDicts == UNION {[S -> TickPool] : S \in SUBSET Instruments}

TicksCall(tickDict, r) ==
    [op |-> "Ticks", order |-> 0, result |-> r.err, arg |-> tickDict, batch |-> r.batch]

\* tick.Ticks(tickDict) called directly.
ConstructTicks(tickDict) ==
    /\ lastCall' = TicksCall(tickDict, TicksInit(tickDict))
    /\ UNCHANGED <<feedVars, brokerVars, fillVars, orders, ctlVars, events, handlerLog, emitted>>
    /\ UNCHANGED firstRun

(***************************************************************************)
(* The runs checked.                                                       *)
(***************************************************************************)
\* Feeds of the runs.  Feed1: AAA ticks at 1, 2 and 3 and a BBB tick at 2;
\* the date changes between 1 and 2.  Feed2: the last AAA tick is a BasicTick
\* built by its constructor.  Feed3: AAA holds two ticks with one datetime.
Feed1 ==
    [AAA |-> <<RestoredTick(1, 2), RestoredTick(2, 3), RestoredTick(3, 2)>>,
     BBB |-> <<RestoredTick(2, 5)>>]

Feed2 ==
    [AAA |-> <<RestoredTick(1, 2), BasicTick(2, 3)>>,
     BBB |-> <<RestoredTick(1, 5)>>]

Feed3 ==
    [AAA |-> <<RestoredTick(1, 2), RestoredTick(1, 3), RestoredTick(2, 3)>>,
     BBB |-> <<>>]

\* Feed4: one AAA tick with bid 10, built by BasicTick's constructor;
\* Feed5: the same tick with a readable bid.
Feed4 == [AAA |-> <<BasicTick(1, 10)>>]

Feed5 == [AAA |-> <<RestoredTick(1, 10)>>]

\* Feed6: AAA ticks with bid 11 then 9; Feed7: AAA ticks with bid 14 then 16.
Feed6 == [AAA |-> <<RestoredTick(1, 11), RestoredTick(2, 9)>>]

Feed7 == [AAA |-> <<RestoredTick(1, 14), RestoredTick(2, 16)>>]

\* Feed8: AAA ticks with bid 3, then 2, then 2.
Feed8 == [AAA |-> <<RestoredTick(1, 3), RestoredTick(2, 2), RestoredTick(3, 2)>>]

\* The orders user code creates.
Order(kind, action, instrument, quantity, gtc, limitPrice) ==
    [kind |-> kind, action |-> action, instrument |-> instrument, quantity |-> quantity,
     gtc |-> gtc, allOrNone |-> FALSE, limitPrice |-> limitPrice, stopPrice |-> 0]

BuyGtc == Order("MARKET", "BUY", "AAA", 100, TRUE, 0)

SellDay == Order("MARKET", "SELL", "AAA", 100, FALSE, 0)

BuyBig == Order("MARKET", "BUY", "AAA", 15000, TRUE, 0)

BuyDay == Order("MARKET", "BUY", "BBB", 100, FALSE, 0)

LimitBuy == Order("LIMIT", "BUY", "AAA", 100, TRUE, 10)

Buy9000 == Order("MARKET", "BUY", "AAA", 9000, TRUE, 0)

Buy12000 == Order("MARKET", "BUY", "AAA", 12000, TRUE, 0)

BuyDayA == Order("MARKET", "BUY", "AAA", 100, FALSE, 0)

LimitBuy50 == Order("LIMIT", "BUY", "AAA", 50, TRUE, 10)

\* stopOrder(instrument, stopPrice, quantity) and stopLimitOrder(instrument,
\* stopPrice, limitPrice, quantity)
StopBuy == [Order("STOP", "BUY", "AAA", 10, TRUE, 0) EXCEPT !.stopPrice = 15]

StopLimitBuy == [Order("STOP_LIMIT", "BUY", "AAA", 10, TRUE, 12) EXCEPT !.stopPrice = 15]

StopLimitSell == [Order("STOP_LIMIT", "SELL", "AAA", 10, TRUE, 12) EXCEPT !.stopPrice = 15]

\* marketOrder(..., allOrNone=True)
AonBuy == [Order("MARKET", "BUY", "AAA", 2000, TRUE, 0) EXCEPT !.allOrNone = TRUE]

\* Broker(cash, feed, commission), setAllowNegativeCash, setShares and
\* DefaultStrategy.setVolumeLimit before the run, and the orders of the run.
Settings(initialCash, commission, allowNegativeCash, volumeLimit, seed, pool) ==
    [initialCash |-> initialCash, commission |-> commission,
     allowNegativeCash |-> allowNegativeCash, volumeLimit |-> volumeLimit,
     seed |-> seed, pool |-> pool]

NoSeed == EmptyDict

Scenarios ==
    { <<Feed1, Settings(50000, "fixed", FALSE, TRUE, NoSeed, <<BuyGtc, SellDay>>)>>,
      <<Feed1, Settings(50000, "fixed", FALSE, TRUE, NoSeed, <<BuyBig, BuyGtc>>)>>,
      <<Feed1, Settings(250, "fixed", FALSE, TRUE, [i \in {"AAA"} |-> 100], <<BuyGtc, BuyGtc>>)>>,
      <<Feed1, Settings(250, "none", TRUE, FALSE, [i \in {"BBB"} |-> 0 - 50], <<BuyDay, BuyBig>>)>>,
      <<Feed2, Settings(50000, "none", FALSE, TRUE, NoSeed, <<BuyGtc, BuyDay>>)>>,
      <<Feed3, Settings(50000, "none", FALSE, TRUE, NoSeed, <<BuyGtc>>)>>,
      <<Feed1, Settings(250, "fixed", FALSE, TRUE, NoSeed, <<LimitBuy, BuyDay>>)>>,
      <<Feed1, Settings(50000, "none", FALSE, TRUE, NoSeed, <<Buy9000, AonBuy>>)>>,
      <<Feed1, Settings(100, "none", FALSE, TRUE, NoSeed, <<BuyDayA>>)>>,
      <<Feed4, Settings(10000, "none", FALSE, TRUE, NoSeed, <<BuyDayA>>)>>,
      <<Feed5, Settings(10000, "none", FALSE, TRUE, NoSeed, <<BuyDayA>>)>>,
      <<Feed6, Settings(50000, "none", FALSE, TRUE, NoSeed, <<LimitBuy50>>)>>,
      <<Feed7, Settings(50000, "none", FALSE, TRUE, NoSeed, <<StopBuy>>)>>,
      <<Feed7, Settings(50000, "none", FALSE, TRUE, NoSeed, <<StopLimitBuy, StopLimitSell>>)>>,
      <<Feed5, Settings(5000, "none", FALSE, TRUE, [i \in {"AAA"} |-> 0], <<BuyDayA>>)>>,
      <<Feed8, Settings(25000, "fixed", FALSE, TRUE, NoSeed, <<Buy12000>>)>> }

\* No run was made before this one.
NoRun == [pc |-> "none", events |-> <<>>, cash |-> 0, shares |-> EmptyDict]

\* The strategy subscribed to the feed before the broker.
SubscriptionsMut == <<"strategy", "broker">>

\* Broker.__init__ subscribes to the feed's new-values event; the strategy,
\* which is built with the broker, subscribes after it.
Subscriptions == <<"broker", "strategy">>

\* Broker.__init__: self.__nextOrderId = 1
FirstOrderId == 1

\* The state Broker.__init__, DefaultStrategy.__init__ and the feed's
\* constructor leave, for a feed loaded with f and the settings c.
Constructed(f, c, subs) ==
    /\ ticks = f
    /\ nextPos = [i \in DOMAIN f |-> 0]
    /\ feedStarted = FALSE
    /\ currDateTime = NoDT
    /\ currentTicks = NoTicks
    /\ lastTicks = EmptyDict
    /\ subscribers = subs
    /\ cash = c.initialCash
    /\ shares = c.seed
    /\ instrumentPrice = [i \in DOMAIN c.seed |-> 1]
    /\ activeOrders = EmptyDict
    /\ nextOrderId = FirstOrderId
    /\ brokerStarted = FALSE
    /\ config = c
    /\ volumeLeft = EmptyDict
    /\ volumeUsed = EmptyDict
    /\ orders = <<>>
    /\ hIdx = 0
    /\ cohort = <<>>
    /\ cIdx = 0
    /\ cb = FALSE
    /\ events = <<>>
    /\ handlerLog = <<>>
    /\ emitted = <<>>
    /\ lastCall = Call("init", 0, "ok")
    /\ firstRun = NoRun

Init ==
    /\ pc = "init"
    /\ \E sc \in Scenarios : Constructed(sc[1], sc[2], Subscriptions)

Next ==
    \/ CreateOrder
    \/ CreateMarketOrderOnClose
    \/ \E o \in 1..Len(orders) : SubmitOrder(o)
    \/ \E o \in 1..Len(orders) : CancelOrder(o)
    \/ \E c \in CashAmounts : SetCash(c)
    \/ CallbackReturn
    \/ Start
    \/ Dispatch
    \/ BrokerOnTicks
    \/ OnTicksImpl
    \/ ProcessOrder
    \/ PostProcessOrder
    \/ BrokerOnTicksEnd
    \/ StrategyOnTicks
    \/ StrategyReturn
    \/ EmitDone
    \/ Stop

Spec == Init /\ [][Next]_vars

\* The steps of the run that are not calls made by user code: the
\* dispatcher's loop, the handlers of the feed's event, and the return of a
\* handler of the strategy.
RunStep ==
    \/ CallbackReturn
    \/ Start
    \/ Dispatch
    \/ BrokerOnTicks
    \/ OnTicksImpl
    \/ ProcessOrder
    \/ PostProcessOrder
    \/ BrokerOnTicksEnd
    \/ StrategyOnTicks
    \/ StrategyReturn
    \/ EmitDone
    \/ Stop

\* The run with its progress: the program is sequential, user code returns
\* from every handler, and run() is called once the strategy is set up.
LiveSpec == Init /\ [][Next]_vars /\ WF_vars(RunStep)

(***************************************************************************)
(* Two runs of one strategy: when a run has ended, its order events, final *)
(* cash and positions are kept, and feed, broker and strategy are built    *)
(* again with the same ticks and settings for a second run.                *)
(***************************************************************************)
TwinScenarios ==
    { <<Feed1, Settings(50000, "fixed", FALSE, TRUE, NoSeed, <<BuyGtc, SellDay>>)>>,
      <<Feed1, Settings(250, "fixed", FALSE, TRUE, NoSeed, <<LimitBuy, BuyDay>>)>>,
      <<Feed1, Settings(50000, "none", FALSE, TRUE, NoSeed, <<Buy9000, AonBuy>>)>> }

\* The order events that user code causes: a submission, a cancellation.
IsUserEvent(e) ==
    \/ e.type = "SUBMITTED"
    \/ e.type = "CANCELED" /\ e.reason = "User requested cancellation"

\* What the strategy chose in a call that caused an order event: the
\* operation, the order, and where in the run it made the call.
UserKey(e) == <<e.type, e.order, e.during, e.dt>>

\* The calls of the strategy seen in a sequence of order events: what it
\* chose, and after how many order events.
UserPart(evs) == {<<k, UserKey(evs[k])>> : k \in {n \in 1..Len(evs) : IsUserEvent(evs[n])}}

\* The strategy of the second run is the strategy of the first: so far it
\* has made the calls of the first run at the points of the first run.
SameStrategySoFar(evs) ==
    \A k \in 1..Len(evs) :
        IsUserEvent(evs[k]) =>
            /\ k <= Len(firstRun.events)
            /\ IsUserEvent(firstRun.events[k])
            /\ UserKey(evs[k]) = UserKey(firstRun.events[k])

\* The counter of order ids is kept from one broker to the next.
NewBrokerOrderIdMut == nextOrderId

\* The counter of order ids belongs to the broker object: a broker built
\* anew starts with the first id.
NewBrokerOrderId == FirstOrderId

\* The run has ended; the same feed contents, broker and strategy are built again.
Rerun ==
    /\ pc \in {"done", "crashed"}
    /\ firstRun = NoRun
    /\ firstRun' = [pc |-> pc, events |-> events, cash |-> cash, shares |-> shares]
    /\ pc' = "init"
    /\ nextPos' = [i \in DOMAIN ticks |-> 0]
    /\ feedStarted' = FALSE
    /\ currDateTime' = NoDT
    /\ currentTicks' = NoTicks
    /\ lastTicks' = EmptyDict
    /\ cash' = config.initialCash
    /\ shares' = config.seed
    /\ instrumentPrice' = [i \in DOMAIN config.seed |-> 1]
    /\ activeOrders' = EmptyDict
    /\ nextOrderId' = NewBrokerOrderId
    /\ brokerStarted' = FALSE
    /\ volumeLeft' = EmptyDict
    /\ volumeUsed' = EmptyDict
    /\ orders' = <<>>
    /\ hIdx' = 0
    /\ cohort' = <<>>
    /\ cIdx' = 0
    /\ cb' = FALSE
    /\ events' = <<>>
    /\ handlerLog' = <<>>
    /\ emitted' = <<>>
    /\ lastCall' = Call("init", 0, "ok")
    /\ UNCHANGED <<ticks, subscribers, config>>

TwinInit ==
    /\ pc = "init"
    /\ \E sc \in TwinScenarios : Constructed(sc[1], sc[2], Subscriptions)

\* A step of the run; in the second run the strategy does what it did in the first.
TwinStep ==
    \/ CreateOrder
    \/ \E o \in 1..Len(orders) : SubmitOrder(o)
    \/ \E o \in 1..Len(orders) : CancelOrder(o)
    \/ CallbackReturn
    \/ Start
    \/ Dispatch
    \/ BrokerOnTicks
    \/ OnTicksImpl
    \/ ProcessOrder
    \/ PostProcessOrder
    \/ BrokerOnTicksEnd
    \/ StrategyOnTicks
    \/ StrategyReturn
    \/ EmitDone
    \/ Stop

TwinNext ==
    \/ TwinStep /\ (firstRun # NoRun => SameStrategySoFar(events'))
    \/ Rerun

TwinSpec == TwinInit /\ [][TwinNext]_vars

\* A feed alone: ticks are loaded, then the feed is consumed by direct calls.
FeedInit ==
    /\ pc = "feed"
    /\ Constructed(EmptyDict, Settings(0, "none", FALSE, TRUE, NoSeed, <<>>), <<>>)

FeedNext ==
    \/ /\ emitted = <<>>
       /\ lastCall.op # "nextValues"
       /\ \E i \in Instruments, seq \in TickSeqs :
             /\ Len(DictGet(ticks, i, <<>>)) + Len(seq) <= MaxTicks
             /\ AddTicks(i, seq)
    \/ FeedStart
    \/ NextValues
    \/ /\ ticks = EmptyDict
       /\ \E d \in TickDicts : ConstructTicks(d)
    \/ PeekCall
    \/ EofCall

FeedSpec == FeedInit /\ [][FeedNext]_vars

\* The fill strategy alone: one active order of any quantity, filled part
\* and all-or-none flag, any volume left for its instrument (or no entry),
\* with and without a volume limit; the fill size is then computed for it.
FillOrders ==
    {[NewOrder([Order("MARKET", "BUY", "AAA", q, TRUE, 0) EXCEPT !.allOrNone = aon])
         EXCEPT !.id = 1, !.state = IF f = 0 THEN "ACCEPTED" ELSE "PARTIALLY_FILLED", !.filled = f] :
        q \in 1..MaxQuantity, f \in 0..(MaxQuantity - 1), aon \in BOOLEAN}

FillVolumes == {EmptyDict} \cup {[i \in {"AAA"} |-> v] : v \in 0..MaxVolume}

FillCall(o, size) == [op |-> "fillSize", order |-> o, result |-> "ok", size |-> size]

FillInit ==
    /\ pc = "fill"
    /\ ticks = EmptyDict
    /\ nextPos = EmptyDict
    /\ feedStarted = TRUE
    /\ currDateTime = 1
    /\ currentTicks = [dt |-> 1, ticks |-> [i \in {"AAA"} |-> RestoredTick(1, 2)]]
    /\ lastTicks = currentTicks.ticks
    /\ subscribers = <<>>
    /\ cash = 0
    /\ shares = EmptyDict
    /\ instrumentPrice = EmptyDict
    /\ nextOrderId = 2
    /\ brokerStarted = TRUE
    /\ \E limit \in BOOLEAN : config = Settings(0, "none", FALSE, limit, NoSeed, <<>>)
    /\ volumeLeft \in FillVolumes
    /\ volumeUsed = [i \in {"AAA"} |-> 0]
    /\ \E order \in {x \in FillOrders : x.filled < x.quantity} : orders = <<order>>
    /\ activeOrders = [id \in {1} |-> 1]
    /\ hIdx = 0
    /\ cohort = <<1>>
    /\ cIdx = 1
    /\ cb = FALSE
    /\ events = <<>>
    /\ handlerLog = <<>>
    /\ emitted = <<1>>
    /\ lastCall = NoCall
    /\ firstRun = NoRun

\* DefaultStrategy.__calculateFillSize is called for the order.
ApplyFillSize ==
    /\ pc = "fill"
    /\ lastCall.op # "fillSize"
    /\ lastCall' = FillCall(1, CalculateFillSize(orders[1]))
    /\ UNCHANGED <<feedVars, brokerVars, fillVars, orders, ctlVars, events, handlerLog, emitted>>
    /\ UNCHANGED firstRun

FillNext == ApplyFillSize

FillSpec == FillInit /\ [][FillNext]_vars

(***************************************************************************)
(* Properties.                                                             *)
(***************************************************************************)
\* The order events of the fills.
IsFillEvent(e) == e.type \in {"FILLED", "PARTIALLY_FILLED"}

\* The order events Broker.onTicks produces for the orders of its cohort.
IsTickEvent(e) ==
    \/ e.type \in {"ACCEPTED", "FILLED", "PARTIALLY_FILLED"}
    \/ e.type = "CANCELED" /\ e.reason = "Expired"

\* C1: the datetimes of the batches the in-memory feed emits are strictly
\* increasing, whatever ticks were loaded and however often the feed is asked.
C1_EmittedStrictlyIncreasing ==
    \A k \in 1..(Len(emitted) - 1) : emitted[k] < emitted[k + 1]

\* Two batches were emitted and a call in between failed on a duplicate datetime.
C1_Witness ==
    /\ Len(emitted) >= 2
    /\ \E i \in DOMAIN ticks : \E k \in 1..(Len(ticks[i]) - 1) :
          /\ k + 1 <= nextPos[i]
          /\ ticks[i][k].dt = ticks[i][k + 1].dt
          /\ ticks[i][k].dt < emitted[Len(emitted)]

\* C2: the state of an order changes along the legal transitions only, and
\* an order that is FILLED or CANCELED never changes state again.
C2_Legal ==
    { <<"INITIAL", "SUBMITTED">>, <<"SUBMITTED", "ACCEPTED">>, <<"SUBMITTED", "CANCELED">>,
      <<"ACCEPTED", "PARTIALLY_FILLED">>, <<"ACCEPTED", "FILLED">>, <<"ACCEPTED", "CANCELED">>,
      <<"PARTIALLY_FILLED", "FILLED">>, <<"PARTIALLY_FILLED", "CANCELED">> }

C2_LegalTransitions ==
    [][\A o \in 1..Len(orders) :
          orders'[o].state # orders[o].state => <<orders[o].state, orders'[o].state>> \in C2_Legal]_vars

\* An order was canceled after a partial fill.
C2_Witness ==
    \E o \in 1..Len(orders) :
        /\ orders[o].state = "CANCELED"
        /\ \E k \in 1..Len(events) : events[k].order = o /\ events[k].type = "PARTIALLY_FILLED"

\* C3: an order submitted while batch k is handled is not accepted, filled or
\* expired at batch k, and the cohort of a batch is exactly the orders that
\* were active when Broker.onTicks began.
C3_ActiveBefore(dt) ==
    {o \in 1..Len(orders) :
        /\ \E k \in 1..Len(events) :
              events[k].order = o /\ events[k].type = "SUBMITTED" /\ events[k].dt < dt
        /\ ~\E k \in 1..Len(events) :
              events[k].order = o /\ events[k].type \in {"FILLED", "CANCELED"} /\ events[k].dt < dt}

C3_SnapshotDiscipline ==
    /\ \A j, k \in 1..Len(events) :
          (events[j].type = "SUBMITTED" /\ events[k].order = events[j].order /\ IsTickEvent(events[k]))
              => events[j].dt < events[k].dt
    /\ pc \in {"loop", "process", "post"} =>
          {cohort[k] : k \in 1..Len(cohort)} = C3_ActiveBefore(currDateTime)

\* An order submitted from an order-event handler during Broker.onTicks was
\* accepted at a later batch.
C3_Witness ==
    \E j, k \in 1..Len(events) :
        /\ events[j].type = "SUBMITTED"
        /\ events[j].during = "broker"
        /\ events[k].order = events[j].order
        /\ events[k].type = "ACCEPTED"

\* C4: for every batch, Broker.onTicks has returned, and so has delivered the
\* order events of the batch, before the strategy's onTicks begins.
C4_BrokerBeforeStrategy ==
    /\ \A k \in 1..Len(handlerLog) :
          handlerLog[k] = <<"strategy", "begin">> =>
              \E j \in 1..(k - 1) : handlerLog[j] = <<"broker", "end">>
    /\ \A k \in 1..Len(events) : IsTickEvent(events[k]) => ~events[k].strategyBegun

\* The strategy's onTicks runs for a batch at which an order was filled.
C4_Witness ==
    /\ pc = "strategy"
    /\ \E k \in 1..Len(events) : events[k].type = "FILLED" /\ events[k].dt = currDateTime

\* The cash an order event takes away: price * quantity of a buy, minus
\* price * quantity of a sell, plus the commission; nothing unless it reports
\* a committed execution.
C5_Outflow(e) ==
    IF ~IsFillEvent(e) THEN 0
    ELSE (IF e.action = "BUY" THEN e.exec.price * e.exec.quantity
          ELSE 0 - e.exec.price * e.exec.quantity) + e.exec.commission

\* C5 as stated: the initial cash is the cash plus, over the committed
\* executions, price * quantity of the buys minus price * quantity of the
\* sells plus the commissions, and only a committed execution changes the cash.
C5_CashConservation ==
    /\ [](config.initialCash = cash + SumSeq([k \in 1..Len(events) |-> C5_Outflow(events[k])]))
    /\ [][cash' # cash =>
             /\ Len(events') = Len(events) + 1
             /\ IsFillEvent(events'[Len(events')])]_vars

\* C5, amended: Broker.setCash changes the cash too.  Every other step takes
\* from the cash exactly price * quantity (buy) or minus price * quantity
\* (sell) plus the commission of the execution it commits, and nothing when it
\* commits none; so the sum is conserved from one setCash to the next.
C5_CashChangesByExecutions ==
    [][lastCall'.op # "setCash" =>
          /\ Len(events') \in {Len(events), Len(events) + 1}
          /\ cash' = cash - (IF Len(events') = Len(events) + 1
                             THEN C5_Outflow(events'[Len(events')]) ELSE 0)]_vars

\* A buy and a sell were executed, one of them with a commission.
C5_Witness ==
    \E j, k \in 1..Len(events) :
        /\ IsFillEvent(events[j]) /\ events[j].action = "BUY"
        /\ IsFillEvent(events[k]) /\ events[k].action = "SELL"
        /\ events[j].exec.commission > 0

\* C6: the position in an instrument is the seeded quantity plus the bought
\* minus the sold quantities of the committed executions.
C6_Signed(e, i) ==
    IF ~IsFillEvent(e) \/ e.instrument # i THEN 0
    ELSE IF e.action = "BUY" THEN e.exec.quantity ELSE 0 - e.exec.quantity

C6_PositionsAreSignedFills ==
    \A i \in Instruments :
        GetShares(i) = DictGet(config.seed, i, 0)
                         + SumSeq([k \in 1..Len(events) |-> C6_Signed(events[k], i)])

\* A buy and a sell of the same size left no position.
C6_Witness ==
    /\ "AAA" \notin DOMAIN shares
    /\ \E j, k \in 1..Len(events) :
          /\ IsFillEvent(events[j]) /\ events[j].action = "BUY" /\ events[j].instrument = "AAA"
          /\ IsFillEvent(events[k]) /\ events[k].action = "SELL" /\ events[k].instrument = "AAA"

C8_ActiveOrdersAreNonTerminal ==
    /\ DOMAIN activeOrders =
          {orders[o].id : o \in {x \in 1..Len(orders) :
                                    orders[x].state \in {"SUBMITTED", "ACCEPTED", "PARTIALLY_FILLED"}}}
    /\ \A id \in DOMAIN activeOrders : orders[activeOrders[id]].id = id
    /\ \A k \in 1..Len(events) :
          events[k].registered <=> events[k].state \in {"SUBMITTED", "ACCEPTED", "PARTIALLY_FILLED"}

\* A FILLED event is being delivered while another order is active.
C8_Witness ==
    /\ cb
    /\ Len(events) > 0
    /\ events[Len(events)].type = "FILLED"
    /\ DOMAIN activeOrders # {}

\* C9: submitOrder on an INITIAL order succeeds, gives it the next order id,
\* makes it SUBMITTED, registers it and delivers exactly one SUBMITTED event,
\* in which the order is registered and SUBMITTED.
C9_SubmitInitial ==
    [][\A o \in 1..Len(orders) :
          (lastCall'.op = "submit" /\ lastCall'.order = o /\ orders[o].state = "INITIAL") =>
              /\ lastCall'.result = "ok"
              /\ orders'[o].id = nextOrderId
              /\ nextOrderId' = nextOrderId + 1
              /\ orders'[o].state = "SUBMITTED"
              /\ DOMAIN activeOrders' = (DOMAIN activeOrders) \cup {nextOrderId}
              /\ activeOrders'[nextOrderId] = o
              /\ Len(events') = Len(events) + 1
              /\ LET e == events'[Len(events')]
                 IN /\ e.type = "SUBMITTED"
                    /\ e.order = o
                    /\ e.id = nextOrderId
                    /\ e.state = "SUBMITTED"
                    /\ e.registered]_vars

\* The second order was submitted from an order-event handler.
C9_Witness ==
    /\ lastCall.op = "submit"
    /\ lastCall.result = "ok"
    /\ cb
    /\ nextOrderId = 3

\* C10: submitOrder on an order that is not INITIAL fails with "already
\* processed" and changes neither the order nor the broker, and delivers no event.
C10_SubmitProcessed ==
    [][\A o \in 1..Len(orders) :
          (lastCall'.op = "submit" /\ lastCall'.order = o /\ orders[o].state # "INITIAL") =>
              /\ lastCall'.result = "AlreadyProcessed"
              /\ orders'[o] = orders[o]
              /\ UNCHANGED <<activeOrders, nextOrderId, cash, shares, events>>]_vars

\* The submission of a filled order failed.
C10_Witness ==
    /\ lastCall.op = "submit"
    /\ lastCall.result = "AlreadyProcessed"
    /\ orders[lastCall.order].state = "FILLED"

\* C11: the n-th successful submitOrder assigns the id n, so the ids are
\* unique and increasing in submission order, and nextOrderId is one plus the
\* number of successful submissions.
C11_IdsInSubmissionOrder ==
    LET submitted == SelectSeq(events, LAMBDA e : e.type = "SUBMITTED")
    IN /\ \A k \in 1..Len(submitted) : submitted[k].id = k
       /\ nextOrderId = Len(submitted) + 1
       /\ \A o \in 1..Len(orders) :
             orders[o].id # NoId =>
                /\ orders[o].id < nextOrderId
                /\ \A p \in 1..Len(orders) : orders[p].id = orders[o].id => p = o

\* Two orders were submitted and a further submitOrder failed, using up no id.
C11_Witness ==
    /\ nextOrderId = 3
    /\ lastCall.op = "submit"
    /\ lastCall.result = "AlreadyProcessed"
    /\ \A o \in 1..Len(orders) : orders[o].id # NoId

\* C12: cancelOrder fails with "already filled" on a FILLED order and with
\* "not active" on any other order that is not in activeOrders, changing
\* nothing; otherwise it removes the order from activeOrders, makes it
\* CANCELED and delivers one CANCELED event with the user-cancellation reason.
C12_CancelContract ==
    [][\A o \in 1..Len(orders) :
          (lastCall'.op = "cancel" /\ lastCall'.order = o) =>
              IF orders[o].state = "FILLED"
              THEN /\ lastCall'.result = "AlreadyFilled"
                   /\ UNCHANGED <<orders, activeOrders, events>>
              ELSE IF orders[o].id \notin DOMAIN activeOrders
              THEN /\ lastCall'.result = "NotActive"
                   /\ UNCHANGED <<orders, activeOrders, events>>
              ELSE /\ lastCall'.result = "ok"
                   /\ DOMAIN activeOrders' = (DOMAIN activeOrders) \ {orders[o].id}
                   /\ orders'[o].state = "CANCELED"
                   /\ Len(events') = Len(events) + 1
                   /\ LET e == events'[Len(events')]
                      IN /\ e.type = "CANCELED"
                         /\ e.order = o
                         /\ e.reason = "User requested cancellation"]_vars

\* C13: when the fill of an order would leave the cash negative and
\* allowNegativeCash is false, the fill is not applied: cash, positions, the
\* order, activeOrders and the fill strategy's volumes stay as they are, no
\* event is delivered and the order stays active and registered.
C13_CashAfter(order, fill) ==
    (IF order.action = "BUY" THEN cash - fill.price * fill.size ELSE cash + fill.price * fill.size)
        - (IF config.commission = "fixed" /\ ~order.hasExec THEN FixedAmount ELSE 0)

C13_RefusedFillChangesNothing ==
    [][(pc = "process" /\ ~cb /\ pc' # "process") =>
          LET o == cohort[cIdx]
              order == orders[o]
              tick == currentTicks.ticks[order.instrument]
              fill == Process(order, tick)
          IN (/\ IsActive(order)
              /\ ~ExpiredBefore(order, tick)
              /\ fill.err = "ok"
              /\ fill.fill
              /\ ~config.allowNegativeCash
              /\ C13_CashAfter(order, fill) < 0) =>
                 /\ UNCHANGED <<cash, shares, orders, activeOrders, volumeLeft, volumeUsed, events>>
                 /\ IsActive(orders'[o])
                 /\ order.id \in DOMAIN activeOrders'
                 /\ activeOrders'[order.id] = o]_vars

\* An order accepted at an earlier batch was refused again for lack of cash.
C13_Witness ==
    /\ ~config.allowNegativeCash
    /\ pc = "post"
    /\ ~cb
    /\ LET order == orders[cohort[cIdx]]
           tick == currentTicks.ticks[order.instrument]
           fill == Process(order, tick)
       IN /\ order.state = "ACCEPTED"
          /\ order.acceptedAt < currDateTime
          /\ order.filled = 0
          /\ order.id \in DOMAIN activeOrders
          /\ fill.fill
          /\ C13_CashAfter(order, fill) < 0

\* C14: with a volume limit, the quantities of the fills committed for an
\* instrument in one step add up to at most the rounded volume left that the
\* fill strategy held for the instrument when the step began.
C14_FilledAt(i, dt) ==
    SumSeq([k \in 1..Len(events) |->
               IF IsFillEvent(events[k]) /\ events[k].instrument = i /\ events[k].exec.dt = dt
               THEN events[k].exec.quantity ELSE 0])

C14_VolumeLimitPerStep ==
    (config.volumeLimit /\ currentTicks # NoTicks) =>
        \A i \in DOMAIN currentTicks.ticks :
            /\ i \in DOMAIN VolumeLeftOnTicks(currentTicks)
            /\ C14_FilledAt(i, currentTicks.dt) <= RoundQuantity(VolumeLeftOnTicks(currentTicks)[i])

\* A fill took the whole volume of the tick and the next order of the same
\* instrument got nothing at this batch.
C14_Witness ==
    /\ config.volumeLimit
    /\ pc = "post"
    /\ ~cb
    /\ orders[cohort[cIdx]].filled = 0
    /\ orders[cohort[cIdx]].state = "ACCEPTED"
    /\ \E k \in 1..Len(events) :
          /\ events[k].type = "PARTIALLY_FILLED"
          /\ events[k].exec.dt = currentTicks.dt
          /\ events[k].instrument = orders[cohort[cIdx]].instrument
          /\ C14_FilledAt(events[k].instrument, currentTicks.dt) = TickVolume

\* C15: the fill size of an order is computed from max = remaining without a
\* volume limit, else the rounded volume left of its instrument (0 without an
\* entry): an all-or-none order gets remaining when remaining <= max and 0
\* otherwise, any other order min(max, remaining); so 0 <= size <= remaining.
C15_FillSize ==
    lastCall.op = "fillSize" =>
        LET order == orders[lastCall.order]
            remaining == order.quantity - order.filled
            max == IF ~config.volumeLimit THEN remaining
                   ELSE IF order.instrument \in DOMAIN volumeLeft THEN volumeLeft[order.instrument]
                   ELSE 0
            size == lastCall.size
        IN /\ order.allOrNone => size = (IF remaining <= max THEN remaining ELSE 0)
           /\ ~order.allOrNone => size = (IF max <= remaining THEN max ELSE remaining)
           /\ 0 <= size
           /\ size <= remaining

\* An all-or-none order got nothing because the volume left is short of it.
C15_Witness ==
    /\ lastCall.op = "fillSize"
    /\ lastCall.size = 0
    /\ orders[1].allOrNone
    /\ config.volumeLimit
    /\ "AAA" \in DOMAIN volumeLeft
    /\ volumeLeft["AAA"] > 0
    /\ volumeLeft["AAA"] < orders[1].quantity - orders[1].filled

\* C16: an all-or-none order is never PARTIALLY_FILLED and every execution
\* committed for it has the order's whole quantity; while the volume left for
\* its instrument is smaller than what remains of it, it gets no fill and
\* stays active.
C16_AllOrNone ==
    /\ [](\A o \in 1..Len(orders) :
             config.pool[o].allOrNone =>
                /\ orders[o].state # "PARTIALLY_FILLED"
                /\ \A k \in 1..Len(events) :
                      (events[k].order = o /\ IsFillEvent(events[k])) =>
                          /\ events[k].type = "FILLED"
                          /\ events[k].exec.quantity = config.pool[o].quantity)
    /\ [][(pc = "process" /\ ~cb /\ pc' # "process") =>
             LET o == cohort[cIdx]
             IN (/\ config.pool[o].allOrNone
                 /\ IsActive(orders[o])
                 /\ config.volumeLimit
                 /\ DictGet(volumeLeft, orders[o].instrument, 0) < orders[o].quantity - orders[o].filled) =>
                    /\ UNCHANGED <<orders, events, cash, shares, activeOrders>>
                    /\ pc' = "post"]_vars

\* An all-or-none order that got nothing at the batch of its acceptance, the
\* volume left being short, was filled whole at a later batch.
C16_Witness ==
    \E o \in 1..Len(orders) :
        /\ config.pool[o].allOrNone
        /\ orders[o].state = "FILLED"
        /\ orders[o].acceptedAt < orders[o].exec.dt
        /\ \E k \in 1..Len(events) :
              /\ events[k].type = "PARTIALLY_FILLED" \/ events[k].type = "FILLED"
              /\ events[k].order # o
              /\ events[k].exec.dt = orders[o].acceptedAt
              /\ events[k].exec.quantity > TickVolume - orders[o].quantity

\* C17: for every order filled <= quantity, so that what remains is never
\* negative; the filled part is the sum of its executions; the order is FILLED
\* exactly when filled = quantity; and no execution is committed for an order
\* of which nothing remains.
C17_FilledOf(o) ==
    SumSeq([k \in 1..Len(events) |->
               IF IsFillEvent(events[k]) /\ events[k].order = o THEN events[k].exec.quantity ELSE 0])

C17_FilledWithinQuantity ==
    /\ [](\A o \in 1..Len(orders) :
             /\ orders[o].filled <= orders[o].quantity
             /\ orders[o].quantity - orders[o].filled >= 0
             /\ orders[o].filled = C17_FilledOf(o)
             /\ orders[o].state = "FILLED" <=> orders[o].filled = orders[o].quantity)
    /\ [][\A o \in 1..Len(orders) :
             (Len(events') = Len(events) + 1 /\ events'[Len(events')].order = o
                  /\ IsFillEvent(events'[Len(events')])) =>
                 /\ orders[o].quantity - orders[o].filled > 0
                 /\ events'[Len(events')].exec.quantity > 0
                 /\ events'[Len(events')].exec.quantity <= orders[o].quantity - orders[o].filled]_vars

\* An order was filled in two executions.
C17_Witness ==
    \E o \in 1..Len(orders) :
        /\ orders[o].state = "FILLED"
        /\ \E k \in 1..Len(events) : events[k].order = o /\ events[k].type = "PARTIALLY_FILLED"

\* C18: a non-GTC order accepted on date D and still active is, at the first
\* batch with a tick of a later date for its instrument, removed from
\* activeOrders, made CANCELED and reported by one CANCELED event with the
\* reason "Expired", no fill being attempted; so the run gets to that batch
\* with the order; and no GTC order is canceled by expiry.
C18_LaterDateTick(order) ==
    \E k \in 1..Len(DictGet(ticks, order.instrument, <<>>)) :
        /\ k > nextPos[order.instrument]
        /\ DateOf(ticks[order.instrument][k].dt) > DateOf(order.acceptedAt)

C18_ExpiredAtNextDate ==
    /\ [](\A o \in 1..Len(orders) :
             /\ (~orders[o].gtc /\ orders[o].state \in {"ACCEPTED", "PARTIALLY_FILLED"}
                    /\ C18_LaterDateTick(orders[o])) => pc # "crashed"
             /\ \A k \in 1..Len(events) :
                   (events[k].order = o /\ events[k].reason = "Expired") => ~orders[o].gtc)
    /\ [][(pc = "process" /\ ~cb /\ pc' # "process") =>
             LET o == cohort[cIdx]
                 order == orders[o]
                 tick == currentTicks.ticks[order.instrument]
             IN (~order.gtc /\ IsActive(order) /\ DateOf(tick.dt) > DateOf(order.acceptedAt)) =>
                    /\ orders'[o].state = "CANCELED"
                    /\ orders'[o].filled = order.filled
                    /\ DOMAIN activeOrders' = (DOMAIN activeOrders) \ {order.id}
                    /\ Len(events') = Len(events) + 1
                    /\ events'[Len(events')].type = "CANCELED"
                    /\ events'[Len(events')].order = o
                    /\ events'[Len(events')].reason = "Expired"
                    /\ UNCHANGED <<cash, shares>>]_vars

\* C19: the post-processing of a non-GTC order that is still active after
\* the fill attempt: with a feed of daily or greater frequency and a tick
\* whose date is not before the accepted date, the order is canceled in this
\* same step with a CANCELED "Expired" event and is not active at the next
\* batch; with any other feed it is left as it is; in both cases
\* Broker.onTicks goes on with its loop.
C19_PostProcessExpiry ==
    [][(pc = "post" /\ ~cb /\ pc' # "post") =>
          LET o == cohort[cIdx]
              order == orders[o]
              tick == currentTicks.ticks[order.instrument]
          IN (~order.gtc /\ IsActive(order)) =>
                /\ pc' = "loop"
                /\ IF FrequencyRank(FeedFrequency) >= FrequencyRank("DAY")
                      /\ DateOf(tick.dt) >= DateOf(order.acceptedAt)
                   THEN /\ orders'[o].state = "CANCELED"
                        /\ order.id \notin DOMAIN activeOrders'
                        /\ Len(events') = Len(events) + 1
                        /\ events'[Len(events')].type = "CANCELED"
                        /\ events'[Len(events')].order = o
                        /\ events'[Len(events')].reason = "Expired"
                   ELSE UNCHANGED <<orders, activeOrders, events>>]_vars

\* The run of the scenario: one AAA tick at T1 with bid 10, initial cash 10000.
C20_OneTickRun == config.initialCash = 10000 /\ DOMAIN ticks = {"AAA"} /\ Len(ticks["AAA"]) = 1

C21_LimitFilledAtBid ==
    [][(pc = "process" /\ ~cb /\ pc' # "process") =>
          LET o == cohort[cIdx]
              order == orders[o]
              tick == currentTicks.ticks[order.instrument]
              size == CalculateFillSize(order)
          IN (/\ order.kind = "LIMIT"
              /\ IsActive(order)
              /\ ~ExpiredBefore(order, tick)
              /\ size > 0
              /\ EnoughCash(ResultingCash(order, tick.bid, size))) =>
                 /\ pc' # "crashed"
                 /\ Len(events') = Len(events) + 1
                 /\ IsFillEvent(events'[Len(events')])
                 /\ events'[Len(events')].order = o
                 /\ events'[Len(events')].exec.price = tick.bid
                 /\ events'[Len(events')].exec.quantity = size]_vars

\* C22: a STOP BUY order whose stop was not hit yet, processed at a tick
\* with a bid below its stop price, keeps stop_hit = false and gets no fill,
\* Broker.onTicks going on; processed at a tick with a bid at or above its
\* stop price it gets stop_hit = true and is filled for its full quantity at
\* that bid (stop 15: nothing at bid 14, filled at 16 at bid 16).
C22_StopThenFill ==
    [][(pc = "process" /\ ~cb /\ pc' # "process") =>
          LET o == cohort[cIdx]
              order == orders[o]
              tick == currentTicks.ticks[order.instrument]
          IN (/\ order.kind = "STOP"
              /\ order.action = "BUY"
              /\ IsActive(order)
              /\ ~order.stopHit
              /\ ~ExpiredBefore(order, tick)) =>
                 IF tick.bid < order.stopPrice
                 THEN /\ pc' = "post"
                      /\ ~orders'[o].stopHit
                      /\ orders'[o].filled = order.filled
                      /\ UNCHANGED <<events, cash, shares>>
                 ELSE /\ pc' = "post"
                      /\ orders'[o].stopHit
                      /\ orders'[o].state = "FILLED"
                      /\ Len(events') = Len(events) + 1
                      /\ events'[Len(events')].type = "FILLED"
                      /\ events'[Len(events')].order = o
                      /\ events'[Len(events')].exec.price = tick.bid
                      /\ events'[Len(events')].exec.quantity = order.quantity]_vars

\* The fill price C23 gives a stop-limit order at a tick: the limit trigger
\* (the bid) when the stop was hit at an earlier tick, else the smaller of
\* stop trigger and limit price for a BUY and the larger for a SELL.
C23_Price(order, tick) ==
    IF order.stopHit THEN tick.bid
    ELSE IF order.action = "BUY" THEN Min2(tick.bid, order.limitPrice)
    ELSE Max2(tick.bid, order.limitPrice)

\* C23: a stop-limit order processed at a tick at which its stop is hit and
\* its limit trigger is present, with a fill size above zero (and cash for
\* it), is filled in that step at min(stop trigger, limit price) for a BUY
\* and max(stop trigger, limit price) for a SELL when the stop is hit at this
\* tick, and at the limit trigger when it was hit earlier; so a BUY filled at
\* the tick of its trigger pays at most its limit price and a SELL gets at
\* least its limit price.
C23_StopLimitPrice ==
    [][(pc = "process" /\ ~cb /\ pc' # "process") =>
          LET o == cohort[cIdx]
              order == orders[o]
              tick == currentTicks.ticks[order.instrument]
              size == CalculateFillSize(order)
              price == C23_Price(order, tick)
          IN (/\ order.kind = "STOP_LIMIT"
              /\ IsActive(order)
              /\ ~ExpiredBefore(order, tick)
              /\ size > 0
              /\ EnoughCash(ResultingCash(order, price, size))) =>
                 /\ pc' = "post"
                 /\ orders'[o].stopHit
                 /\ Len(events') = Len(events) + 1
                 /\ IsFillEvent(events'[Len(events')])
                 /\ events'[Len(events')].order = o
                 /\ events'[Len(events')].exec.price = price
                 /\ (~order.stopHit /\ order.action = "BUY") =>
                        events'[Len(events')].exec.price <= order.limitPrice
                 /\ (~order.stopHit /\ order.action = "SELL") =>
                        events'[Len(events')].exec.price >= order.limitPrice]_vars

\* The feed's frequency is below daily.
C24_Intraday == FeedFrequencyField \in {"TRADE", "SECOND", "MINUTE", "HOUR"}

\* C24: createMarketOrder with onClose = true fails with "Market-on-close not
\* supported" and creates nothing when the feed is intraday, and with a feed
\* that is not intraday returns a market order in its initial state; either
\* way no order is registered and no order id is consumed; with onClose =
\* false the creation does not fail.
C24_MarketOnClose ==
    [][/\ lastCall'.op = "createOnClose" =>
             /\ UNCHANGED <<activeOrders, nextOrderId, events>>
             /\ IF C24_Intraday
                THEN lastCall'.result = "MarketOnCloseNotSupported" /\ UNCHANGED orders
                ELSE /\ lastCall'.result = "ok"
                     /\ Len(orders') = Len(orders) + 1
                     /\ SubSeq(orders', 1, Len(orders)) = orders
                     /\ orders'[Len(orders')].kind = "MARKET"
                     /\ orders'[Len(orders')].state = "INITIAL"
                     /\ orders'[Len(orders')].id = NoId
       /\ lastCall'.op = "create" =>
             /\ lastCall'.result = "ok"
             /\ Len(orders') = Len(orders) + 1
             /\ orders'[Len(orders')].state = "INITIAL"
             /\ UNCHANGED <<activeOrders, nextOrderId, events>>]_vars

\* A market-on-close order was asked for and refused, after an order was
\* created without onClose.
C24_Witness ==
    /\ lastCall = Call("createOnClose", 0, "MarketOnCloseNotSupported")
    /\ Len(orders) = 1

\* C25: a batch the in-memory feed emits is not empty, all its ticks have
\* the batch's datetime, and that datetime is what peekDateTime returned
\* right before the call; and Ticks built from an empty mapping fails with
\* "No ticks supplied", from ticks with differing datetimes with "Tick data
\* times are not in sync", and from any other mapping succeeds.
C25_BatchWellFormed ==
    [][/\ (lastCall'.op = "nextValues" /\ lastCall'.result = "ok") =>
             /\ DOMAIN currentTicks'.ticks # {}
             /\ \A i \in DOMAIN currentTicks'.ticks : currentTicks'.ticks[i].dt = currentTicks'.dt
             /\ currentTicks'.dt = PeekDateTime
             /\ emitted' = Append(emitted, PeekDateTime)
       /\ lastCall'.op = "Ticks" =>
             LET d == lastCall'.arg
             IN /\ DOMAIN d = {} => lastCall'.result = "EmptyBatch"
                /\ (\E i, j \in DOMAIN d : d[i].dt # d[j].dt) => lastCall'.result = "TimestampMismatch"
                /\ (DOMAIN d # {} /\ \A i, j \in DOMAIN d : d[i].dt = d[j].dt) =>
                       /\ lastCall'.result = "ok"
                       /\ lastCall'.batch.ticks = d
                       /\ \A i \in DOMAIN d : lastCall'.batch.dt = d[i].dt]_vars

\* The feed has emitted a batch with the ticks of two instruments, after a
\* batch with one.
C25_Witness ==
    /\ lastCall.op = "nextValues"
    /\ lastCall.result = "ok"
    /\ Cardinality(DOMAIN currentTicks.ticks) = 2
    /\ Len(emitted) = 2

\* The datetimes of the current ticks: of the instruments whose cursor is
\* below the length of its sequence.
C26_Current ==
    {ticks[i][nextPos[i] + 1].dt : i \in {j \in DOMAIN ticks : nextPos[j] < Len(ticks[j])}}

\* C26: in every state of the feed peekDateTime is the smallest datetime of
\* the current ticks and None when there is none, eof holds exactly when
\* every cursor has reached the length of its sequence, so eof holds if and
\* only if peekDateTime is None; and a call of either returns that value and
\* changes nothing in the feed.
C26_PeekAndEof ==
    /\ [](/\ C26_Current = {} => PeekDateTime = NoDT
          /\ C26_Current # {} =>
                /\ PeekDateTime \in C26_Current
                /\ \A e \in C26_Current : PeekDateTime <= e
          /\ Eof <=> \A i \in DOMAIN ticks : nextPos[i] = Len(ticks[i])
          /\ Eof <=> PeekDateTime = NoDT)
    /\ [][/\ lastCall'.op = "peekDateTime" =>
                lastCall'.value = PeekDateTime /\ UNCHANGED <<feedVars, emitted>>
          /\ lastCall'.op = "eof" =>
                lastCall'.value = Eof /\ UNCHANGED <<feedVars, emitted>>]_vars

\* eof was asked and denied while one instrument is exhausted and the other
\* still has a tick.
C26_Witness ==
    /\ lastCall.op = "eof"
    /\ lastCall.value = FALSE
    /\ \E i, j \in DOMAIN ticks :
          /\ Len(ticks[i]) > 0 /\ nextPos[i] = Len(ticks[i])
          /\ nextPos[j] < Len(ticks[j])

\* The instruments whose current tick has the smallest datetime of the
\* current ticks.
C27_Selected ==
    {i \in DOMAIN ticks :
        /\ nextPos[i] < Len(ticks[i])
        /\ \A e \in C26_Current : ticks[i][nextPos[i] + 1].dt <= e}

\* The number of batches emitted so far that hold a tick of instrument i:
\* the batches have distinct datetimes, and the batch of a datetime holds the
\* instrument exactly when one of the ticks its cursor has passed has that
\* datetime.
C27_BatchesWith(i) ==
    Cardinality({d \in {emitted[k] : k \in 1..Len(emitted)} :
                    \E k \in 1..nextPos[i] : ticks[i][k].dt = d})

\* A successful getNextTicks returns the current ticks of exactly the
\* selected instruments, moves the cursor of each of them by one and leaves
\* the other cursors; the sequences stay sorted by datetime.
C27_Advance ==
    (lastCall'.op = "nextValues" /\ lastCall'.result = "ok") =>
        /\ DOMAIN currentTicks'.ticks = C27_Selected
        /\ \A i \in C27_Selected : currentTicks'.ticks[i] = ticks[i][nextPos[i] + 1]
        /\ \A i \in DOMAIN ticks :
              nextPos'[i] = IF i \in C27_Selected THEN nextPos[i] + 1 ELSE nextPos[i]
        /\ \A i \in DOMAIN ticks : IsSorted(ticks[i])
        /\ UNCHANGED ticks

\* C27 as stated: a successful getNextTicks returns the ticks of exactly the
\* instruments whose current tick has the datetime of peekDateTime, advances
\* their cursors by one and leaves the others; and each loaded tick is
\* emitted in exactly one batch: when the feed is at eof every instrument has
\* been in as many batches as it has ticks.
C27_EachTickExactlyOnce ==
    /\ [][C27_Advance]_vars
    /\ [](Eof => \A i \in DOMAIN ticks : C27_BatchesWith(i) = Len(ticks[i]))

\* C27, amended: a successful getNextTicks does as stated; each loaded tick
\* is emitted in at most one batch, in its instrument's time order; and in
\* exactly one, once the cursor has passed it, when no instrument holds two
\* ticks with the same datetime (a call that fails on a duplicate datetime
\* has moved the cursors past the ticks it does not return).
C27_EachTickAtMostOnce ==
    /\ [][C27_Advance]_vars
    /\ [](\A i \in DOMAIN ticks : C27_BatchesWith(i) <= nextPos[i])
    /\ []((\A i \in DOMAIN ticks : \A j, k \in 1..Len(ticks[i]) :
              j # k => ticks[i][j].dt # ticks[i][k].dt) =>
          \A i \in DOMAIN ticks : C27_BatchesWith(i) = nextPos[i])

\* The feed is at eof after two batches: one with the ticks of both
\* instruments, one with a tick of one of them.
C27_Witness ==
    /\ Eof
    /\ Len(emitted) = 2
    /\ \E i, j \in DOMAIN ticks :
          /\ i # j
          /\ Len(ticks[i]) = 2 /\ C27_BatchesWith(i) = 2
          /\ Len(ticks[j]) = 1 /\ C27_BatchesWith(j) = 1

\* C28: when the smallest datetime of the current ticks, the datetime of the
\* batch getNextTicks would return, is the datetime of the batch emitted
\* last, the call fails with "Duplicate ticks found" and emits nothing: the
\* current batch, the last tick of every instrument and the feed's current
\* datetime stay as they were.
C28_DuplicateTimestamp ==
    [][(/\ lastCall'.op = "nextValues"
        /\ Len(emitted) > 0
        /\ emitted[Len(emitted)] \in C26_Current
        /\ \A e \in C26_Current : emitted[Len(emitted)] <= e) =>
           /\ lastCall'.result = "DuplicateTimestamp"
           /\ UNCHANGED <<currentTicks, lastTicks, currDateTime, emitted>>
           /\ currDateTime = emitted[Len(emitted)]]_vars

\* A call has failed on a duplicate datetime and the batch emitted before it
\* is still the current one.
C28_Witness ==
    /\ lastCall.op = "nextValues"
    /\ lastCall.result = "DuplicateTimestamp"
    /\ currentTicks # NoTicks
    /\ currentTicks.dt = currDateTime
    /\ \A i \in DOMAIN currentTicks.ticks : lastTicks[i] = currentTicks.ticks[i]

\* C29: addTicksFromSequence fails with "Can't add more ticks" and leaves
\* the sequences and cursors as they are once the first batch has been taken
\* from the feed; before that it succeeds: the instrument's sequence gets
\* longer, holds what it held, is sorted by datetime, and the instrument is
\* registered with its cursor.
C29_AddTicksLock ==
    [][lastCall'.op = "addTicks" =>
          IF emitted # <<>>
          THEN lastCall'.result = "FeedLocked" /\ UNCHANGED <<ticks, nextPos>>
          ELSE /\ lastCall'.result = "ok"
               /\ \E i \in DOMAIN ticks' :
                     /\ \A j \in (DOMAIN ticks') \ {i} : j \in DOMAIN ticks /\ ticks'[j] = ticks[j]
                     /\ Len(ticks'[i]) > Len(DictGet(ticks, i, <<>>))
                     /\ \A k \in 1..Len(DictGet(ticks, i, <<>>)) :
                           \E n \in 1..Len(ticks'[i]) : ticks'[i][n] = ticks[i][k]
                     /\ IsSorted(ticks'[i])
                     /\ DOMAIN nextPos' = DOMAIN ticks'
                     /\ nextPos'[i] = DictGet(nextPos, i, 0)]_vars

RECURSIVE C31_Sum(_, _)
C31_Sum(f, S) ==
    IF S = {} THEN 0
    ELSE LET i == CHOOSE x \in S : TRUE IN f[i] + C31_Sum(f, S \ {i})

C31_Passed == C31_Sum(nextPos, DOMAIN nextPos)

C31_Loaded == C31_Sum([i \in DOMAIN ticks |-> Len(ticks[i])], DOMAIN ticks)

\* C31: a backtest over a finite feed ends.  A getNextTicks made while the
\* feed is not at eof moves at least one cursor forward and none back, also
\* when it fails on a duplicate datetime; the run is over only when the feed
\* is at eof (Broker.eof is the feed's eof) or after an exception; the
\* batches emitted are never more than the ticks passed, which are never
\* more than the ticks loaded; and every run gets to its end.
C31_Terminates ==
    /\ [][(pc = "idle" /\ lastCall'.op = "dispatch") =>
             /\ \E i \in DOMAIN nextPos : nextPos'[i] = nextPos[i] + 1
             /\ \A i \in DOMAIN nextPos : nextPos'[i] >= nextPos[i]]_vars
    /\ [](/\ Len(emitted) <= C31_Passed
          /\ C31_Passed <= C31_Loaded
          /\ pc = "done" => (Eof /\ \A i \in DOMAIN ticks : nextPos[i] = Len(ticks[i])))
    /\ <>(pc \in {"done", "crashed"})

\* A run has ended at eof after three batches, four ticks having been loaded.
C31_Witness ==
    /\ pc = "done"
    /\ Len(emitted) = 3
    /\ C31_Passed = 4
    /\ C31_Loaded = 4

\* C32: in every state of the broker the positions hold no entry with
\* quantity zero (an instrument whose position becomes 0 with a fill is
\* removed), so that getEquity and getCash(includeShort=False), which go
\* through all the entries, never meet a zero position.
C32_NoZeroPosition == \A i \in DOMAIN shares : shares[i] # 0

\* C33: when Broker.onTicks comes to an order of its cohort whose instrument
\* has a tick in the batch and which is SUBMITTED, the order gets the tick's
\* datetime as its accepted datetime, becomes ACCEPTED and its ACCEPTED event
\* is delivered, before any fill or expiry of the order is attempted; an
\* order whose instrument has no tick in the batch is left as it is (state,
\* accepted datetime, stop_hit, filled) and no event is delivered.
C33_AcceptOrSkip ==
    [][(pc = "loop" /\ ~cb /\ cIdx <= Len(cohort)) =>
          LET o == cohort[cIdx]
              order == orders[o]
          IN IF order.instrument \notin DOMAIN currentTicks.ticks
             THEN /\ UNCHANGED <<orders, events, activeOrders, cash, shares>>
                  /\ pc' = "loop"
                  /\ cIdx' = cIdx + 1
             ELSE order.state = "SUBMITTED" =>
                     /\ orders'[o].state = "ACCEPTED"
                     /\ orders'[o].acceptedAt = currentTicks.ticks[order.instrument].dt
                     /\ orders'[o].filled = order.filled
                     /\ orders'[o].stopHit = order.stopHit
                     /\ \A k \in 1..Len(events) : events[k].order = o => events[k].type = "SUBMITTED"
                     /\ Len(events') = Len(events) + 1
                     /\ SubSeq(events', 1, Len(events)) = events
                     /\ events'[Len(events')].type = "ACCEPTED"
                     /\ events'[Len(events')].order = o
                     /\ events'[Len(events')].state = "ACCEPTED"
                     /\ pc' = "process"
                     /\ UNCHANGED <<cIdx, activeOrders, cash, shares>>]_vars

\* An order for BBB submitted before the run was passed over at the batch
\* without a BBB tick and accepted at the batch of datetime 2, which has one.
C33_Witness ==
    \E j, k \in 1..Len(events) :
        /\ events[j].type = "SUBMITTED" /\ events[j].dt = NoDT
        /\ events[k].order = events[j].order
        /\ events[k].type = "ACCEPTED"
        /\ events[k].instrument = "BBB"
        /\ events[k].dt = 2
        /\ Len(emitted) = 2

\* C34: an execution updates the order (filled quantity, state) before cash
\* and positions, and its event is delivered only after cash, positions and
\* the volume of the fill strategy are updated; the event is FILLED, with the
\* order out of the active orders, exactly when filled = quantity after the
\* execution, and PARTIALLY_FILLED, with the order still active, otherwise.
C34_CommitOrder ==
    [][(pc = "process" /\ ~cb) =>
          LET o == cohort[cIdx]
              order == orders[o]
              e == events'[Len(events')]
          IN /\ (cash' # cash \/ shares' # shares) =>
                    /\ orders'[o].hasExec
                    /\ orders'[o].filled = order.filled + orders'[o].exec.quantity
                    /\ orders'[o].state \in {"FILLED", "PARTIALLY_FILLED"}
             /\ (Len(events') > Len(events) /\ IsFillEvent(e)) =>
                    /\ e.order = o
                    /\ orders'[o].exec = e.exec
                    /\ orders'[o].filled = order.filled + e.exec.quantity
                    /\ cash' = cash + Cost(order, e.exec.price, e.exec.quantity) - e.exec.commission
                    /\ GetShares(order.instrument) + SharesDelta(order, e.exec.quantity)
                         = IF order.instrument \in DOMAIN shares' THEN shares'[order.instrument] ELSE 0
                    /\ volumeUsed'[order.instrument] = volumeUsed[order.instrument] + e.exec.quantity
                    /\ config.volumeLimit =>
                          volumeLeft'[order.instrument] = volumeLeft[order.instrument] - e.exec.quantity
                    /\ e.type = "FILLED" <=> orders'[o].filled = order.quantity
                    /\ e.type = "FILLED" <=> orders'[o].state = "FILLED"
                    /\ e.type = "FILLED" => (order.id \notin DOMAIN activeOrders' /\ ~e.registered)
                    /\ e.type = "PARTIALLY_FILLED" =>
                          /\ order.id \in DOMAIN activeOrders'
                          /\ e.registered
                          /\ orders'[o].state = "PARTIALLY_FILLED"
                          /\ orders'[o].filled < order.quantity]_vars

\* An order was partially filled at one batch and filled at a later one.
C34_Witness ==
    \E j, k \in 1..Len(events) :
        /\ j < k
        /\ events[j].order = events[k].order
        /\ events[j].type = "PARTIALLY_FILLED" /\ events[j].registered
        /\ events[k].type = "FILLED" /\ ~events[k].registered
        /\ orders[events[k].order].filled = orders[events[k].order].quantity

\* C35: under FixedPerTrade an order is charged the fixed amount once over
\* its life: its first execution carries commission = amount and every later
\* execution of the order carries commission 0, also when an earlier attempt
\* to fill the order was refused for lack of cash.
C35_ChargedOnce ==
    config.commission = "fixed" =>
        \A k \in 1..Len(events) :
            IsFillEvent(events[k]) =>
                events[k].exec.commission =
                    IF \E j \in 1..(k - 1) : IsFillEvent(events[j]) /\ events[j].order = events[k].order
                    THEN 0 ELSE FixedAmount

\* With cash 25000 the buy of 12000 accepted at datetime 1 was refused there
\* (10000 at bid 3 and the commission cost 30005), had its first execution at
\* datetime 2 with the commission, and its second at datetime 3 without.
C35_Witness ==
    /\ config.commission = "fixed"
    /\ config.initialCash = 25000
    /\ \E j, k \in 1..Len(events) :
          /\ j < k
          /\ events[j].order = events[k].order
          /\ orders[events[j].order].acceptedAt = 1
          /\ events[j].type = "PARTIALLY_FILLED"
          /\ events[j].exec.dt = 2
          /\ events[j].exec.commission = FixedAmount
          /\ events[k].type = "FILLED"
          /\ events[k].exec.commission = 0
          /\ \A i \in 1..(j - 1) : ~IsFillEvent(events[i])

\* C36 as stated: after every batch emitted, the current batch is that
\* batch, last_tick[i] is the batch's tick for every instrument i of the
\* batch and last_tick[j] is unchanged for every other instrument j; and
\* last_tick[i] is always the tick at position cursor[i] - 1 of the sequence
\* of i once i has been emitted.
C36_Emitted(S) ==
    /\ currentTicks'.dt = currDateTime'
    /\ currentTicks'.ticks = [i \in S |-> ticks[i][nextPos'[i]]]
    /\ lastTicks' = [i \in (DOMAIN lastTicks) \cup S |->
                        IF i \in S THEN ticks[i][nextPos'[i]] ELSE lastTicks[i]]

C36_AfterBatch ==
    (lastCall'.op = "nextValues" /\ lastCall'.result = "ok") =>
        C36_Emitted({i \in DOMAIN nextPos : nextPos'[i] = nextPos[i] + 1})

\* The cursor counts the ticks passed: position cursor - 1 counted from 0
\* is element nextPos[i] of the sequence.
C36_AtCursor(i) == nextPos[i] >= 1 /\ lastTicks[i] = ticks[i][nextPos[i]]

C36_LastTickAtCursor ==
    /\ [][C36_AfterBatch]_vars
    /\ [](\A i \in DOMAIN lastTicks : C36_AtCursor(i))

\* C36: after every batch emitted, the current batch is that batch,
\* last_tick[i] is the batch's tick for every instrument i of the batch and
\* last_tick[j] is unchanged for every other instrument j; last_tick[i] is
\* the tick at position cursor[i] - 1 of the sequence of i from the emission
\* of i until a getNextTicks fails with DuplicateTimestamp, and is always a
\* tick of i at a position below its cursor.
C36_LastTicks ==
    /\ [][C36_AfterBatch]_vars
    /\ [][\A i \in DOMAIN lastTicks' :
             \/ C36_AtCursor(i)'
             \/ i \in DOMAIN lastTicks /\ ~C36_AtCursor(i)
             \/ lastCall'.op = "nextValues" /\ lastCall'.result = "DuplicateTimestamp"]_vars
    /\ [](\A i \in DOMAIN lastTicks :
             \E p \in 1..nextPos[i] : lastTicks[i] = ticks[i][p])

\* Two batches were emitted, the second without BBB: the last tick of BBB
\* is still the one of the first batch, the last tick of AAA the one of the
\* second.
C36_Witness ==
    /\ Len(emitted) = 2
    /\ DOMAIN lastTicks = {"AAA", "BBB"}
    /\ DOMAIN currentTicks.ticks = {"AAA"}
    /\ lastTicks["AAA"] = currentTicks.ticks["AAA"]
    /\ lastTicks["BBB"].dt = emitted[1]
    /\ lastTicks["AAA"].dt = emitted[2]
    /\ lastTicks["BBB"] = ticks["BBB"][nextPos["BBB"]]

C38_Before(o, k) == {events[j].type : j \in {i \in 1..(k - 1) : events[i].order = o}}

\* C38: the order events of one order are SUBMITTED, then optionally
\* ACCEPTED followed by any number of PARTIALLY_FILLED, then at most one of
\* FILLED and CANCELED: SUBMITTED comes first and once, ACCEPTED at most
\* once, no fill event before ACCEPTED, and no event after FILLED or
\* CANCELED.
C38_EventOrder ==
    \A k \in 1..Len(events) :
        LET e == events[k]
            before == C38_Before(e.order, k)
        IN /\ e.type \in {"SUBMITTED", "ACCEPTED", "PARTIALLY_FILLED", "FILLED", "CANCELED"}
           /\ e.type = "SUBMITTED" <=> before = {}
           /\ e.type = "ACCEPTED" => before = {"SUBMITTED"}
           /\ IsFillEvent(e) => "ACCEPTED" \in before
           /\ "FILLED" \notin before
           /\ "CANCELED" \notin before

\* An order went through SUBMITTED, ACCEPTED, PARTIALLY_FILLED and was then
\* canceled by the user.
C38_Witness ==
    \E k \in 1..Len(events) :
        /\ events[k].type = "CANCELED"
        /\ events[k].reason = "User requested cancellation"
        /\ C38_Before(events[k].order, k) = {"SUBMITTED", "ACCEPTED", "PARTIALLY_FILLED"}
        /\ orders[events[k].order].state = "CANCELED"

\* C39: an order of the cohort that user code canceled from a callback fired
\* earlier in the same batch gets no fill and no expiry afterwards in that
\* batch: at its turn it is CANCELED and out of the active orders, and the
\* broker passes over it without failing and without changing anything.
C39_CanceledSkipped ==
    [][(/\ pc \in {"loop", "process", "post"}
        /\ ~cb
        /\ cIdx <= Len(cohort)
        /\ orders[cohort[cIdx]].state = "CANCELED") =>
          LET o == cohort[cIdx]
          IN /\ orders[o].id \notin DOMAIN activeOrders
             /\ UNCHANGED <<orders, events, activeOrders, cash, shares, volumeLeft, volumeUsed>>
             /\ pc' # "crashed"
             /\ IF pc = "loop" /\ HasTick(currentTicks, orders[o].instrument)
                THEN pc' = "process" /\ cIdx' = cIdx
                ELSE pc' = "loop" /\ cIdx' = cIdx + 1]_vars

\* The broker is at the turn of an order that has a tick in the batch and
\* was canceled, still SUBMITTED, from the callback of an event of another
\* order of the batch.
C39_Witness ==
    /\ pc = "process"
    /\ ~cb
    /\ orders[cohort[cIdx]].state = "CANCELED"
    /\ \E k \in 2..Len(events) :
          /\ events[k].type = "CANCELED"
          /\ events[k].order = cohort[cIdx]
          /\ events[k].during = "broker"
          /\ events[k].dt = currentTicks.dt
          /\ events[k - 1].order # cohort[cIdx]
          /\ events[k - 1].dt = currentTicks.dt
          /\ IsTickEvent(events[k - 1])

\* C40: with a volume limit set, for every instrument with a tick in the
\* batch the volume left plus the volume used equals the volume left given
\* at the start of the step, after every committed fill; the volume left is
\* never negative; and the assertion of onOrderFilled (volume left >= fill
\* quantity) holds for every fill the broker commits.
C40_VolumeAccount ==
    /\ [](config.volumeLimit =>
             \A i \in DOMAIN volumeLeft :
                 /\ i \in DOMAIN volumeUsed
                 /\ volumeLeft[i] + volumeUsed[i] = TickVolume
                 /\ volumeLeft[i] >= 0)
    /\ [][(config.volumeLimit /\ pc = "process" /\ ~cb /\ IsActive(orders[cohort[cIdx]])) =>
             LET order == orders[cohort[cIdx]]
                 e == events'[Len(events')]
             IN /\ ~(pc' = "crashed" /\ lastCall'.result = "AssertionError")
                /\ (Len(events') > Len(events) /\ IsFillEvent(e)) =>
                       /\ order.instrument \in DOMAIN currentTicks.ticks
                       /\ volumeLeft[order.instrument] >= e.exec.quantity
                       /\ volumeLeft'[order.instrument] = volumeLeft[order.instrument] - e.exec.quantity
                       /\ volumeUsed'[order.instrument] = volumeUsed[order.instrument] + e.exec.quantity]_vars

\* Two orders for AAA were filled for 100 each in the same step: 200 of the
\* 10000 are used and 9800 are left.
C40_Witness ==
    /\ config.volumeLimit
    /\ "AAA" \in DOMAIN volumeLeft
    /\ volumeUsed["AAA"] = 200
    /\ volumeLeft["AAA"] = 9800
    /\ \E j, k \in 1..Len(events) :
          /\ j < k
          /\ IsFillEvent(events[j]) /\ IsFillEvent(events[k])
          /\ events[j].order # events[k].order
          /\ events[j].dt = currentTicks.dt /\ events[k].dt = currentTicks.dt

====
